---- MODULE Spec2Model ----
(***************************************************************************)
(* Weather dashboard core: the HTTP request loop and the forecast views of *)
(* the weather client (api.py, WeatherAPI), the flat-file local store      *)
(* (storage.py, WeatherStorage) and the location input (utils.py).         *)
(*                                                                         *)
(* Each part has its own specification over the same variables:            *)
(*   SpecReq         one client issuing _make_request calls                *)
(*   SpecFav         the favorites collection, with import_data            *)
(*   SpecSaved       the saved-weather collection                          *)
(*   SpecHist        the search-history collection                         *)
(*   SpecHistImport  the search-history collection, with import_data       *)
(*   SpecGet         the two retrieval functions on arbitrary lists        *)
(*   SpecImport      import_data over the three collections                *)
(*   SpecLoad        the operations that load a collection, on any file    *)
(*   SpecParse       parse_location_input                                  *)
(*   SpecDaily       get_daily_forecast                                    *)
(*   SpecWeekly      get_weekly_forecast                                   *)
(*   SpecHourly      get_hourly_forecast                                   *)
(*   SpecCities      get_multiple_cities_weather                           *)
(*   SpecFavRead     the favorites collection, with is_favorite            *)
(*   SpecConc        processes sharing the favorites file                  *)
(*   SpecRound       export_data and import_data(export_data())            *)
(***************************************************************************)
EXTENDS Integers, Sequences, FiniteSets, TLC

VARIABLES
    apiKey,      \* WeatherAPI.api_key: TRUE when a non-empty key is held
    jsonErrKind, \* what response.json() raises on an unparsable body in this build
    pc,          \* position of the caller of _make_request
    attempt,     \* loop variable of _make_request
    trace,       \* the HTTP calls and sleeps of the current call, in order
    result,      \* how the current call ended
    favFile,     \* data/favorites.json
    histFile,    \* data/search_history.json
    savedFile,   \* data/saved_weather.json
    fileStat,    \* per file: "missing", "ok" or "corrupt" (does not parse)
    clock,       \* the last value datetime.now() returned
    calls,       \* adding calls made so far: the number of the last snapshot
    steps,       \* store calls made since the initial state
    detours,     \* those of them that deleted, cleared or failed to write
    last,        \* the last store operation: arguments, files before it, result
    procs        \* the processes that share the store: position and locals of each

reqVars   == <<apiKey, jsonErrKind, pc, attempt, trace, result>>
storeVars == <<favFile, histFile, savedFile, fileStat, clock, calls, steps,
               detours, last, procs>>
vars      == <<apiKey, jsonErrKind, pc, attempt, trace, result,
               favFile, histFile, savedFile, fileStat, clock, calls, steps,
               detours, last, procs>>

\* config.py
MAX_RETRIES == 2

RECURSIVE Pow2(_)
Pow2(n) == IF n = 0 THEN 1 ELSE 2 * Pow2(n - 1)

RECURSIVE Pow10(_)
Pow10(n) == IF n = 0 THEN 1 ELSE 10 * Pow10(n - 1)

Range(s) == {s[i] : i \in DOMAIN s}

(***************************************************************************)
(* The weather client: WeatherAPI._make_request                            *)
(***************************************************************************)

\* What one requests.get(...) call can do.
TransportFailures == {"timeout", "connection", "request"}

Statuses == {200, 399, 400, 401, 404, 429, 500}

HttpOutcomes ==
    [kind : TransportFailures, status : {0}, body : {"none"}]
    \cup [kind : {"response"}, status : Statuses, body : {"json", "garbage"}]

NoResult == [kind |-> "none", err |-> "none"]

Raise(e)  == [kind |-> "raise", err |-> e]

Returned == [kind |-> "return", err |-> "none"]

GetEvent(o)   == [ev |-> "get", kind |-> o.kind, status |-> o.status, secs |-> 0]

SleepEvent(n) == [ev |-> "sleep", kind |-> "none", status |-> 0, secs |-> n]

\* The status checks of the try block; "none" when no check fires.
StatusError(status) ==
    IF status = 401 THEN "invalid_key"
    ELSE IF status = 404 THEN "not_found"
    ELSE IF status = 429 THEN "rate_limit"
    ELSE IF status >= 400 THEN "api_error"
    ELSE "none"

\* Mutant of TryBlock: the status errors are raised as a requests exception,
\* which the third handler catches and retries.
TryBlockCaught(o) ==
    IF o.kind \in TransportFailures THEN [exc |-> o.kind, api |-> FALSE]
    ELSE IF StatusError(o.status) # "none"
         THEN [exc |-> "request", api |-> FALSE]
    ELSE IF o.body = "garbage"
         THEN [exc |-> jsonErrKind, api |-> FALSE]
    ELSE [exc |-> "none", api |-> FALSE]

\* The exception the try block ends with, "none" when it returns the body.
\* api: the exception is a WeatherAPIError, which no handler catches.
TryBlock(o) ==
    IF o.kind \in TransportFailures THEN [exc |-> o.kind, api |-> FALSE]
    ELSE IF StatusError(o.status) # "none"
         THEN [exc |-> StatusError(o.status), api |-> TRUE]
    ELSE IF o.body = "garbage"
         THEN [exc |-> jsonErrKind, api |-> FALSE]
    ELSE [exc |-> "none", api |-> FALSE]

\* Mutant of WaitTime: a linear backoff.
WaitTimeLinear(a) == 2 * a

\* The wait of the backoff step.
WaitTime(a) == Pow2(a)

ReqInit ==
    /\ apiKey \in BOOLEAN
    /\ jsonErrKind \in {"request", "ValueError"}
    /\ pc = "idle"
    /\ attempt = 0
    /\ trace = <<>>
    /\ result = NoResult

\* Mutant of MakeRequest: the API key is not looked at.
MakeRequestUnchecked ==
    /\ pc = "idle"
    /\ trace' = <<>>
    /\ attempt' = 0
    /\ pc' = "loop"
    /\ result' = NoResult
    /\ UNCHANGED <<apiKey, jsonErrKind>>

\* Entry of _make_request: the API key check.
MakeRequest ==
    /\ pc = "idle"
    /\ trace' = <<>>
    /\ attempt' = 0
    /\ IF ~apiKey
       THEN /\ pc' = "done"
            /\ result' = Raise("config")
       ELSE /\ pc' = "loop"
            /\ result' = NoResult
    /\ UNCHANGED <<apiKey, jsonErrKind>>

\* One iteration of the retry loop: the HTTP call, the status checks, the
\* exception handlers and the backoff sleep.
Attempt(o) ==
    /\ pc = "loop"
    /\ attempt <= MAX_RETRIES
    /\ LET t == TryBlock(o)
           got == Append(trace, GetEvent(o))
       IN  IF t.exc = "none"
           THEN /\ result' = Returned
                /\ pc' = "done"
                /\ trace' = got
                /\ attempt' = attempt
           ELSE IF t.api \/ t.exc \notin TransportFailures
           THEN /\ result' = Raise(t.exc)
                /\ pc' = "done"
                /\ trace' = got
                /\ attempt' = attempt
           ELSE IF attempt = MAX_RETRIES
           THEN /\ result' = Raise(t.exc)
                /\ pc' = "done"
                /\ trace' = got
                /\ attempt' = attempt
           ELSE /\ result' = NoResult
                /\ pc' = "loop"
                /\ trace' = Append(got, SleepEvent(WaitTime(attempt)))
                /\ attempt' = attempt + 1
    /\ UNCHANGED <<apiKey, jsonErrKind>>

\* The call is over and its locals are gone: the caller may call again.
NextCall ==
    /\ pc = "done"
    /\ pc' = "idle"
    /\ attempt' = 0
    /\ trace' = <<>>
    /\ result' = NoResult
    /\ UNCHANGED <<apiKey, jsonErrKind>>

StoreIdle ==
    /\ favFile = <<>>
    /\ histFile = <<>>
    /\ savedFile = <<>>
    /\ fileStat = [k \in {"favorites", "history", "saved_weather"} |-> "missing"]
    /\ clock = 0
    /\ calls = 0
    /\ steps = 0
    /\ detours = 0
    /\ last = [op |-> "none"]
    /\ procs = <<>>

\* The client is not in use.
ReqIdle ==
    /\ apiKey = TRUE
    /\ jsonErrKind = "request"
    /\ pc = "idle"
    /\ attempt = 0
    /\ trace = <<>>
    /\ result = NoResult

InitReq == ReqInit /\ StoreIdle

NextReq ==
    \/ MakeRequest /\ UNCHANGED storeVars
    \/ (\E o \in HttpOutcomes : Attempt(o)) /\ UNCHANGED storeVars
    \/ NextCall /\ UNCHANGED storeVars

SpecReq == InitReq /\ [][NextReq]_vars

(***************************************************************************)
(* Properties of _make_request                                             *)
(***************************************************************************)
GetIndices == {i \in DOMAIN trace : trace[i].ev = "get"}

SleepIndices == {i \in DOMAIN trace : trace[i].ev = "sleep"}

OnlyTimeouts == \A i \in GetIndices : trace[i].kind = "timeout"

\* C1: a call whose every HTTP attempt times out ends by raising the timeout
\* WeatherAPIError after exactly MAX_RETRIES + 1 HTTP attempts; the call
\* sleeps 2^attempt seconds (1, 2, ...) after attempt 0, 1, ... and so between
\* each pair of consecutive attempts, and does not sleep after the last one.
C1_TimeoutRetries ==
    (pc \in {"loop", "done"} /\ OnlyTimeouts) =>
        /\ \A i \in DOMAIN trace :
              /\ (i % 2 = 1) => trace[i] = [ev |-> "get", kind |-> "timeout",
                                            status |-> 0, secs |-> 0]
              /\ (i % 2 = 0) => /\ trace[i].ev = "sleep"
                                /\ trace[i].secs = 2 ^ ((i \div 2) - 1)
        /\ Cardinality(GetIndices) <= MAX_RETRIES + 1
        /\ (pc = "loop") => Len(trace) % 2 = 0
        /\ (pc = "done" /\ trace # <<>>) =>
              /\ Cardinality(GetIndices) = MAX_RETRIES + 1
              /\ Cardinality(SleepIndices) = MAX_RETRIES
              /\ trace[Len(trace)].ev = "get"
              /\ result = [kind |-> "raise", err |-> "timeout"]

C1_Witness ==
    /\ pc = "done"
    /\ OnlyTimeouts
    /\ Cardinality(GetIndices) = MAX_RETRIES + 1
    /\ result = [kind |-> "raise", err |-> "timeout"]

ApiErrorOf(status) ==
    CASE status = 401 -> "invalid_key"
      [] status = 404 -> "not_found"
      [] status = 429 -> "rate_limit"
      [] OTHER -> "api_error"

\* C2: a response with status >= 400 on any attempt ends the call at once with
\* the WeatherAPIError of that status: the response is the last event of the
\* call, no sleep and no HTTP call follows it; when the first response is 404
\* the call made exactly one HTTP call and raises the not-found error.
C2_StatusErrorIsFatal ==
    \A i \in GetIndices :
        (trace[i].kind = "response" /\ trace[i].status >= 400) =>
            /\ i = Len(trace)
            /\ pc = "done"
            /\ result = [kind |-> "raise", err |-> ApiErrorOf(trace[i].status)]
            /\ (trace[1].kind = "response" /\ trace[1].status = 404) =>
                  /\ Cardinality(GetIndices) = 1
                  /\ SleepIndices = {}

C2_Witness ==
    /\ pc = "done"
    /\ Len(trace) = 1
    /\ trace[1].kind = "response"
    /\ trace[1].status = 404
    /\ result = [kind |-> "raise", err |-> "not_found"]

(***************************************************************************)
(* The local store: WeatherStorage                                         *)
(*                                                                         *)
(* A file is the JSON list it holds, a sequence of records, with its       *)
(* status in fileStat: "missing" (never written), "ok", or "corrupt" (it   *)
(* does not parse).  A timestamp is the integer the clock showed:          *)
(* datetime.now().isoformat() strings of one format compare as their       *)
(* instants do.  The clock never runs backwards; two calls may read the    *)
(* same instant.                                                           *)
(***************************************************************************)
Keys == {"favorites", "history", "saved_weather"}

\* str.lower(), character by character.  A query is a sequence of characters.
LowerChar(c) ==
    CASE c = "A" -> "a" [] c = "B" -> "b" [] c = "C" -> "c" [] c = "D" -> "d"
      [] c = "E" -> "e" [] c = "F" -> "f" [] c = "G" -> "g" [] c = "H" -> "h"
      [] OTHER -> c

Lower(q) == [i \in DOMAIN q |-> LowerChar(q[i])]

\* s[:n]; a negative n counts from the end.
Slice(s, n) ==
    IF n >= Len(s) THEN s
    ELSE IF n >= 0 THEN SubSeq(s, 1, n)
    ELSE IF Len(s) + n > 0 THEN SubSeq(s, 1, Len(s) + n)
    ELSE <<>>

\* list.insert(0, x)
InsertFront(x, s) == <<x>> \o s

\* Mutant of SortedByTimestampDesc: reverse=True is left out.
SortedByTimestampAsc(s) ==
    SortSeq(s, LAMBDA a, b : a.timestamp < b.timestamp)

\* sorted(s, key=lambda x: x.timestamp, reverse=True): a stable sort, so
\* records of one timestamp keep their order.
SortedByTimestampDesc(s) ==
    SortSeq(s, LAMBDA a, b : a.timestamp > b.timestamp)

\* _load_json(filepath, []): the list of the file, [] when the file is
\* missing or does not parse.
LoadJson(file, stat) == IF stat = "ok" THEN file ELSE <<>>

\* What the open/dump of _save_json can do: succeed, or fail with an IOError
\* that leaves the file as it was.
WriteOutcomes == {"ok", "ioerror"}

\* _save_json: the file after the call.
SavedFile(file, data, w) == IF w = "ok" THEN data ELSE file

SavedStat(stat, w) == IF w = "ok" THEN "ok" ELSE stat

\* _save_json: the value returned.
SaveResult(w) == (w = "ok")

\* datetime.now(): the instants a call may read.
NowSet == {clock + 1} \cup (IF clock > 0 THEN {clock} ELSE {})

(***************************************************************************)
(* Favorites                                                               *)
(***************************************************************************)
\* get_favorites
GetFavorites == LoadJson(favFile, fileStat["favorites"])

\* Mutant of HasQuery: the queries are compared as they are written.
HasQueryExact(favs, query) ==
    \E i \in DOMAIN favs : favs[i].query = query

\* The duplicate check of add_favorite (and the test of is_favorite).
HasQuery(favs, query) ==
    \E i \in DOMAIN favs : Lower(favs[i].query) = Lower(query)

\* Mutant of WithoutQuery: the queries are compared as they are written.
WithoutQueryExact(favs, query) ==
    SelectSeq(favs, LAMBDA f : f.query # query)

\* The list remove_favorite keeps.
WithoutQuery(favs, query) ==
    SelectSeq(favs, LAMBDA f : Lower(f.query) # Lower(query))

FavoriteLocation(name, query, now) ==
    [name |-> name, query |-> query, added_date |-> now]

\* add_favorite(name, query); w is what the write does.
AddFavorite(name, query, now, w) ==
    LET favorites == GetFavorites
        data == Append(favorites, FavoriteLocation(name, query, now))
    IN  IF HasQuery(favorites, query)
        THEN /\ last' = [op |-> "add_favorite", name |-> name, query |-> query,
                         pre |-> favorites, wrote |-> FALSE, data |-> <<>>,
                         stat |-> fileStat["favorites"],
                         w |-> "none", ret |-> FALSE]
             /\ UNCHANGED <<favFile, fileStat, clock>>
        ELSE /\ favFile' = SavedFile(favFile, data, w)
             /\ fileStat' = [fileStat EXCEPT !["favorites"] = SavedStat(@, w)]
             /\ clock' = now
             /\ last' = [op |-> "add_favorite", name |-> name, query |-> query,
                         pre |-> favorites, wrote |-> TRUE, data |-> data,
                         stat |-> fileStat["favorites"],
                         w |-> w, ret |-> SaveResult(w)]

\* remove_favorite(query)
RemoveFavorite(query, w) ==
    LET favorites == GetFavorites
        kept == WithoutQuery(favorites, query)
    IN  /\ IF Len(kept) < Len(favorites)
           THEN /\ favFile' = SavedFile(favFile, kept, w)
                /\ fileStat' = [fileStat EXCEPT !["favorites"] = SavedStat(@, w)]
                /\ last' = [op |-> "remove_favorite", query |-> query,
                            pre |-> favorites, wrote |-> TRUE, data |-> kept,
                            w |-> w, ret |-> SaveResult(w)]
           ELSE /\ last' = [op |-> "remove_favorite", query |-> query,
                            pre |-> favorites, wrote |-> FALSE, data |-> <<>>,
                            w |-> "none", ret |-> FALSE]
                /\ UNCHANGED <<favFile, fileStat>>
        /\ UNCHANGED clock

\* is_favorite(query)
IsFavorite(query) ==
    /\ last' = [op |-> "is_favorite", query |-> query, pre |-> GetFavorites,
                wrote |-> FALSE, data |-> <<>>, w |-> "none",
                ret |-> HasQuery(GetFavorites, query)]
    /\ UNCHANGED <<favFile, fileStat, clock>>

(***************************************************************************)
(* import_data                                                             *)
(*                                                                         *)
(* data maps some of the keys to a value [ok, list]: a JSON list (ok), or  *)
(* a value json.dump cannot serialise (~ok), for which the dump raises a   *)
(* TypeError after the file was opened for writing and so emptied.         *)
(***************************************************************************)
Unserialisable == [ok |-> FALSE, list |-> <<>>]

JsonList(l) == [ok |-> TRUE, list |-> l]

\* One "if key in data: self._save_json(FILE, data[key])".  raised: the
\* TypeError left _save_json, which catches IOError only.
ImportOne(data, k, file, stat, w) ==
    IF k \notin DOMAIN data
    THEN [file |-> file, stat |-> stat, raised |-> FALSE]
    ELSE IF w # "ok" \/ data[k].ok
    THEN [file |-> SavedFile(file, data[k].list, w),
          stat |-> SavedStat(stat, w), raised |-> FALSE]
    ELSE [file |-> <<>>, stat |-> "corrupt", raised |-> TRUE]

\* A statement of the try block that is not reached.
Skipped(file, stat) == [file |-> file, stat |-> stat, raised |-> TRUE]

\* import_data(data); w[k] is what the write of key k does.
ImportData(data, w) ==
    LET r1 == ImportOne(data, "favorites", favFile, fileStat["favorites"],
                        w["favorites"])
        r2 == IF r1.raised THEN Skipped(histFile, fileStat["history"])
              ELSE ImportOne(data, "history", histFile, fileStat["history"],
                             w["history"])
        r3 == IF r2.raised THEN Skipped(savedFile, fileStat["saved_weather"])
              ELSE ImportOne(data, "saved_weather", savedFile,
                             fileStat["saved_weather"], w["saved_weather"])
    IN  /\ favFile' = r1.file
        /\ histFile' = r2.file
        /\ savedFile' = r3.file
        /\ fileStat' = [favorites |-> r1.stat, history |-> r2.stat,
                        saved_weather |-> r3.stat]
        /\ last' = [op |-> "import_data", data |-> data, w |-> w,
                    pre |-> [favorites |-> favFile, history |-> histFile,
                             saved_weather |-> savedFile],
                    preStat |-> fileStat,
                    ret |-> ~r3.raised]
        /\ UNCHANGED clock

(***************************************************************************)
(* SpecFav: add_favorite, remove_favorite and import_data on the favorites *)
(***************************************************************************)
MaxFavClock == 3

FavNames == {"Home", "Work"}

FavQueries == {<<"a", "b">>, <<"A", "b">>, <<"A", "B">>, <<"c", ",", "D">>,
               <<"C", ",", "d">>}

\* The favorites lists a backup may hold.
ImportedFavorites ==
    LET f1 == FavoriteLocation("Home", <<"a", "b">>, 0)
        f2 == FavoriteLocation("Work", <<"A", "B">>, 0)
        f3 == FavoriteLocation("Work", <<"c", ",", "D">>, 0)
    IN  {<<>>, <<f1>>, <<f1, f3>>, <<f1, f2>>}

AllOk == [k \in Keys |-> "ok"]

InitFav == ReqIdle /\ StoreIdle

NextFav ==
    \/ \E name \in FavNames, query \in FavQueries, now \in NowSet,
          w \in WriteOutcomes :
          /\ clock < MaxFavClock
          /\ AddFavorite(name, query, now, w)
          /\ UNCHANGED <<histFile, savedFile, calls, steps, detours>>
          /\ UNCHANGED <<reqVars, procs>>
    \/ \E query \in FavQueries, w \in WriteOutcomes :
          /\ RemoveFavorite(query, w)
          /\ UNCHANGED <<histFile, savedFile, calls, steps, detours>>
          /\ UNCHANGED <<reqVars, procs>>
    \/ \E l \in ImportedFavorites, w \in WriteOutcomes :
          /\ ImportData([k \in {"favorites"} |-> JsonList(l)],
                        [AllOk EXCEPT !["favorites"] = w])
          /\ UNCHANGED <<calls, steps, detours>>
          /\ UNCHANGED <<reqVars, procs>>

SpecFav == InitFav /\ [][NextFav]_vars

\* No two entries of a list have queries that are equal ignoring case.
UniqueQueries(l) ==
    Cardinality({Lower(l[i].query) : i \in DOMAIN l}) = Len(l)

\* C4: in every state reached from the empty store by add_favorite,
\* remove_favorite and import_data, no two favorites have queries that are
\* equal ignoring case.
C4_FavoritesUnique == UniqueQueries(GetFavorites)

\* C5: add_favorite(name, query) on favorites that hold an entry whose query
\* equals query ignoring case returns False, writes nothing and leaves the
\* favorites as they were; otherwise the list it writes is the old list with
\* exactly one entry (name, query) appended, it returns the result of the
\* write, and the favorites are the written list when the write succeeded
\* and the old list when it failed.
C5_AddFavorite ==
    (last.op = "add_favorite") =>
        IF \E i \in DOMAIN last.pre :
               Lower(last.pre[i].query) = Lower(last.query)
        THEN /\ last.ret = FALSE
             /\ ~last.wrote
             /\ GetFavorites = last.pre
        ELSE /\ last.wrote
             /\ Len(last.data) = Len(last.pre) + 1
             /\ SubSeq(last.data, 1, Len(last.pre)) = last.pre
             /\ last.data[Len(last.data)].name = last.name
             /\ last.data[Len(last.data)].query = last.query
             /\ last.ret = (last.w = "ok")
             /\ GetFavorites = IF last.ret THEN last.data ELSE last.pre

\* A duplicate in another case was rejected, and a new query was appended to
\* a list that is not empty.
C5_Witness ==
    /\ last.op = "add_favorite"
    /\ ~last.ret
    /\ ~last.wrote
    /\ \E i \in DOMAIN last.pre :
          /\ last.pre[i].query # last.query
          /\ Lower(last.pre[i].query) = Lower(last.query)
    /\ Len(last.pre) = 2

(***************************************************************************)
(* Saved weather records                                                   *)
(*                                                                         *)
(* A record is [location, timestamp, weather_data]; weather_data stands    *)
(* for the snapshot of the call and is the number of the call, so that it  *)
(* tells the records apart and orders them by age (user_note travels with  *)
(* it).                                                                    *)
(***************************************************************************)
SavedGetDefault == 50

SavedLoadLimit == 200

SavedCap == 100

SavedWeatherRecord(location, now, weather_data) ==
    [location |-> location, timestamp |-> now, weather_data |-> weather_data]

\* The whole stored collection, in file order.
StoredSaved == LoadJson(savedFile, fileStat["saved_weather"])

\* get_saved_weather(limit) on the stored list.
SavedWeatherOf(stored, limit) == Slice(SortedByTimestampDesc(stored), limit)

GetSavedWeather(limit) == SavedWeatherOf(StoredSaved, limit)

\* Mutant of TruncateSaved: the cap is not applied.
TruncateSavedOff(records) == records

\* records[:100]
TruncateSaved(records) == Slice(records, SavedCap)

\* The list save_weather_record writes.
SavedAfterSave(stored, new_record) ==
    TruncateSaved(InsertFront(new_record, SavedWeatherOf(stored, SavedLoadLimit)))

\* save_weather_record(location, weather_data)
SaveWeatherRecord(location, weather_data, now, w) ==
    LET new_record == SavedWeatherRecord(location, now, weather_data)
        data == SavedAfterSave(StoredSaved, new_record)
    IN  /\ savedFile' = SavedFile(savedFile, data, w)
        /\ fileStat' = [fileStat EXCEPT !["saved_weather"] = SavedStat(@, w)]
        /\ clock' = now
        /\ last' = [op |-> "save_weather_record", record |-> new_record,
                    pre |-> StoredSaved, wrote |-> TRUE,
                    stat |-> fileStat["saved_weather"],
                    w |-> w, ret |-> SaveResult(w)]

\* delete_weather_record(timestamp)
DeleteWeatherRecord(timestamp, w) ==
    LET records == GetSavedWeather(SavedGetDefault)
        kept == SelectSeq(records, LAMBDA r : r.timestamp # timestamp)
    IN  /\ IF Len(kept) < Len(records)
           THEN /\ savedFile' = SavedFile(savedFile, kept, w)
                /\ fileStat' = [fileStat EXCEPT
                                   !["saved_weather"] = SavedStat(@, w)]
                /\ last' = [op |-> "delete_weather_record",
                            timestamp |-> timestamp, pre |-> StoredSaved,
                            wrote |-> TRUE, w |-> w, ret |-> SaveResult(w)]
           ELSE /\ last' = [op |-> "delete_weather_record",
                            timestamp |-> timestamp, pre |-> StoredSaved,
                            wrote |-> FALSE, w |-> "none", ret |-> FALSE]
                /\ UNCHANGED <<savedFile, fileStat>>
        /\ UNCHANGED clock

(***************************************************************************)
(* SpecSaved: from the empty store a plain run of successful calls of      *)
(* save_weather_record fills the collection (the first two calls may read  *)
(* the same instant); at any point of it the run may turn to at most       *)
(* MaxSteps arbitrary calls, at most MaxDetours of them a deletion or a     *)
(* save whose write fails.                                                 *)
(***************************************************************************)
MaxPlainCalls == 101

MaxSteps == 2

MaxDetours == 1

\* At most so many calls read one instant of the clock.
MaxSameInstant == 2

Location == "Seoul, KR"

\* datetime.now() for a call that adds to stored: the next instant, or the
\* current one again while fewer than MaxSameInstant entries carry it.
NowSetOf(stored) ==
    {clock + 1} \cup
    (IF /\ clock > 0
        /\ Cardinality({i \in DOMAIN stored :
                           stored[i].timestamp = clock}) < MaxSameInstant
     THEN {clock} ELSE {})

\* A call of the plain run.
PlainCall(now, w) ==
    /\ steps = 0
    /\ calls < MaxPlainCalls
    /\ w = "ok"
    /\ now = clock + 1 \/ calls = 1

\* The timestamps a caller asks to delete: those of the newest and oldest
\* records, of the records around the default page size, and one that no
\* record has.
DeleteTargets ==
    LET s == SortedByTimestampDesc(StoredSaved)
        at == {1, SavedGetDefault, SavedGetDefault + 1, Len(s)}
    IN  {s[i].timestamp : i \in at \cap DOMAIN s} \cup {0}

InitSaved == ReqIdle /\ StoreIdle

NextSaved ==
    \/ \E now \in NowSetOf(StoredSaved), w \in WriteOutcomes :
          /\ PlainCall(now, w) \/ steps < MaxSteps
          /\ w = "ok" \/ detours < MaxDetours
          /\ SaveWeatherRecord(Location, calls + 1, now, w)
          /\ calls' = calls + 1
          /\ steps' = IF PlainCall(now, w) THEN 0 ELSE steps + 1
          /\ detours' = IF w = "ok" THEN detours ELSE detours + 1
          /\ UNCHANGED <<favFile, histFile>>
          /\ UNCHANGED <<reqVars, procs>>
    \/ \E timestamp \in DeleteTargets, w \in WriteOutcomes :
          /\ steps < MaxSteps
          /\ detours < MaxDetours
          /\ DeleteWeatherRecord(timestamp, w)
          /\ steps' = steps + 1
          /\ detours' = detours + 1
          /\ UNCHANGED <<favFile, histFile, calls>>
          /\ UNCHANGED <<reqVars, procs>>

SpecSaved == InitSaved /\ [][NextSaved]_vars

(***************************************************************************)
(* Claims on the saved records                                             *)
(***************************************************************************)
IsStored(r) == \E j \in DOMAIN StoredSaved : StoredSaved[j] = r

\* C3: delete_weather_record(ts) removes exactly the records whose timestamp
\* is ts: whenever the last call was a deletion that met no write failure,
\* every record stored before it with another timestamp is still stored, no
\* stored record has timestamp ts, and the call returned True iff a record
\* stored before it had timestamp ts.
C3_DeleteExact ==
    (last.op = "delete_weather_record" /\ last.w # "ioerror") =>
        /\ \A i \in DOMAIN last.pre :
              last.pre[i].timestamp # last.timestamp => IsStored(last.pre[i])
        /\ \A j \in DOMAIN StoredSaved :
              StoredSaved[j].timestamp # last.timestamp
        /\ last.ret = (\E i \in DOMAIN last.pre :
                          last.pre[i].timestamp = last.timestamp)

\* C8: the collection never holds more than 100 records; a successful
\* save_weather_record leaves its record at the front; and after n calls of
\* save_weather_record, none failing and no deletion among them, the
\* collection is the min(n, 100) most recent snapshots, newest first.
C8_SavedCapped ==
    /\ Len(StoredSaved) <= SavedCap
    /\ (last.op = "save_weather_record" /\ last.w = "ok") =>
          StoredSaved[1] = last.record
    /\ detours = 0 =>
          /\ Len(StoredSaved) = IF calls < SavedCap THEN calls ELSE SavedCap
          /\ \A i \in DOMAIN StoredSaved :
                StoredSaved[i].weather_data = calls - i + 1

\* The 101st save in a row has just dropped the oldest record.
C8_Witness ==
    /\ detours = 0
    /\ last.op = "save_weather_record"
    /\ Len(last.pre) = SavedCap
    /\ calls = SavedCap + 1
    /\ Len(StoredSaved) = SavedCap


(***************************************************************************)
(* Search history                                                          *)
(*                                                                         *)
(* An item is [query, timestamp, success].                                 *)
(***************************************************************************)
HistoryLoadLimit == 100

HistoryCap == 50

SearchHistoryItem(query, now, success) ==
    [query |-> query, timestamp |-> now, success |-> success]

\* The whole stored history, in file order.
StoredHistory == LoadJson(histFile, fileStat["history"])

\* get_search_history(limit)
GetSearchHistory(limit) == Slice(SortedByTimestampDesc(StoredHistory), limit)

\* Mutant of OtherQueries: the queries are compared as they are spelt.
OtherQueriesExact(history, query) ==
    SelectSeq(history, LAMBDA item : item.query # query)

\* [item for item in history if item.query.lower() != query.lower()]
OtherQueries(history, query) ==
    SelectSeq(history, LAMBDA item : Lower(item.query) # Lower(query))

\* Mutant of TruncateHistory: the cap is not applied.
TruncateHistoryOff(history) == history

\* history[:50]
TruncateHistory(history) == Slice(history, HistoryCap)

\* add_search_history(query, success)
AddSearchHistory(query, success, now, w) ==
    LET history == GetSearchHistory(HistoryLoadLimit)
        new_item == SearchHistoryItem(query, now, success)
        data == TruncateHistory(InsertFront(new_item,
                                            OtherQueries(history, query)))
    IN  /\ histFile' = SavedFile(histFile, data, w)
        /\ fileStat' = [fileStat EXCEPT !["history"] = SavedStat(@, w)]
        /\ clock' = now
        /\ last' = [op |-> "add_search_history", query |-> query,
                    success |-> success, now |-> now, pre |-> StoredHistory,
                    stat |-> fileStat["history"],
                    w |-> w, ret |-> SaveResult(w)]

\* clear_search_history()
ClearSearchHistory(w) ==
    /\ histFile' = SavedFile(histFile, <<>>, w)
    /\ fileStat' = [fileStat EXCEPT !["history"] = SavedStat(@, w)]
    /\ last' = [op |-> "clear_search_history", pre |-> StoredHistory,
                w |-> w, ret |-> SaveResult(w)]
    /\ UNCHANGED clock

(***************************************************************************)
(* SpecHist: from the empty store a plain run of successful calls of       *)
(* add_search_history, each with a query not searched before, fills the    *)
(* history; when the history is short or around its cap the run may turn   *)
(* to at most MaxSteps arbitrary calls of add_search_history and           *)
(* clear_search_history, at most MaxDetours of them with a failing write.  *)
(* SpecHistImport adds import_data with a "history" key.                   *)
(***************************************************************************)
MaxPlainAdds == 51

Letters == <<"a", "b", "c", "d", "e", "f", "g", "h">>

\* The n-th query, n = 0, 1, ...: two lower-case letters.
Word(n) == <<Letters[(n \div Len(Letters)) + 1], Letters[(n % Len(Letters)) + 1]>>

UpperChar(c) ==
    CASE c = "a" -> "A" [] c = "b" -> "B" [] c = "c" -> "C" [] c = "d" -> "D"
      [] c = "e" -> "E" [] c = "f" -> "F" [] c = "g" -> "G" [] c = "h" -> "H"
      [] OTHER -> c

\* The same query typed in another case.
OtherCase(q) ==
    IF q = Lower(q) THEN [q EXCEPT ![1] = UpperChar(@)] ELSE Lower(q)

\* The queries searched next: one not searched before, and those of the
\* first and the last stored item, typed in another case.
NextQueries ==
    {Word(calls)} \cup
    {OtherCase(StoredHistory[i].query) :
        i \in {1, Len(StoredHistory)} \cap DOMAIN StoredHistory}

\* A call of the plain run.
PlainAdd(query, success, now, w) ==
    /\ steps = 0
    /\ calls < MaxPlainAdds
    /\ query = Word(calls)
    /\ success
    /\ w = "ok"
    /\ now = clock + 1 \/ calls = 1

\* The history sizes at which the plain run may end.
TurnSizes == {0, 1, 2, 3, HistoryCap - 1, HistoryCap}

\* Another arbitrary call may follow.
MayStep ==
    /\ steps < MaxSteps
    /\ steps > 0 \/ Len(StoredHistory) \in TurnSizes

Reverse(s) == [i \in DOMAIN s |-> s[Len(s) + 1 - i]]

\* The history lists a backup may hold: the stored one from the oldest item
\* to the newest, and one with a query in two cases.
ImportedHistories ==
    {Reverse(StoredHistory),
     <<SearchHistoryItem(Word(0), 0, TRUE),
       SearchHistoryItem(OtherCase(Word(0)), 0, TRUE)>>}

InitHist == ReqIdle /\ StoreIdle

AddStep ==
    \E query \in NextQueries, success \in BOOLEAN,
       now \in NowSetOf(StoredHistory), w \in WriteOutcomes :
       /\ PlainAdd(query, success, now, w) \/ MayStep
       /\ w = "ok" \/ detours < MaxDetours
       /\ AddSearchHistory(query, success, now, w)
       /\ calls' = calls + 1
       /\ steps' = IF PlainAdd(query, success, now, w) THEN 0 ELSE steps + 1
       /\ detours' = IF w = "ok" THEN detours ELSE detours + 1
       /\ UNCHANGED <<favFile, savedFile>>
       /\ UNCHANGED <<reqVars, procs>>

ClearStep ==
    \E w \in WriteOutcomes :
       /\ MayStep
       /\ w = "ok" \/ detours < MaxDetours
       /\ ClearSearchHistory(w)
       /\ steps' = steps + 1
       /\ detours' = IF w = "ok" THEN detours ELSE detours + 1
       /\ UNCHANGED <<favFile, savedFile, calls>>
       /\ UNCHANGED <<reqVars, procs>>

ImportHistoryStep ==
    \E l \in ImportedHistories :
       /\ MayStep
       /\ ImportData([k \in {"history"} |-> JsonList(l)], AllOk)
       /\ steps' = steps + 1
       /\ UNCHANGED <<calls, detours>>
       /\ UNCHANGED <<reqVars, procs>>

NextHist == AddStep \/ ClearStep

SpecHist == InitHist /\ [][NextHist]_vars

NextHistImport == AddStep \/ ClearStep \/ ImportHistoryStep

SpecHistImport == InitHist /\ [][NextHistImport]_vars

(***************************************************************************)
(* Claims on the search history                                            *)
(***************************************************************************)
\* The last call was a successful add_search_history of a query that the
\* history held, in some case.
ReAdded ==
    /\ last.op = "add_search_history"
    /\ last.w = "ok"
    /\ \E i \in DOMAIN last.pre :
          Lower(last.pre[i].query) = Lower(last.query)

\* The items the history held before the last call under other queries.
OthersBefore == OtherQueries(last.pre, last.query)

\* The new item is at the front and is the only one with its query.
NewItemAlone ==
    /\ StoredHistory[1] =
          SearchHistoryItem(last.query, last.now, last.success)
    /\ \A j \in 2 .. Len(StoredHistory) :
          Lower(StoredHistory[j].query) # Lower(last.query)

C7_HistoryCapped ==
    /\ Len(StoredHistory) <= HistoryCap
    /\ UniqueQueries(StoredHistory)
    /\ (last.op = "add_search_history" /\ last.w = "ok") =>
          LET o == OthersBefore
              h == StoredHistory
              kept == Range(h)
          IN  \A i \in DOMAIN o :
                 o[i] \notin kept =>
                    /\ Len(h) = HistoryCap
                    /\ \A j \in 2 .. Len(h) :
                          o[i].timestamp <= h[j].timestamp

\* A new query was added to a full history and the oldest item was dropped.
C7_Witness ==
    /\ last.op = "add_search_history"
    /\ last.w = "ok"
    /\ Len(last.pre) = HistoryCap
    /\ Len(OthersBefore) = HistoryCap
    /\ Len(StoredHistory) = HistoryCap
    /\ \A j \in DOMAIN StoredHistory :
          StoredHistory[j] # last.pre[HistoryCap]

(***************************************************************************)
(* SpecGet: get_search_history(limit) and get_saved_weather(limit) on      *)
(* stored lists of up to MaxLen entries with timestamps in 1 .. MaxTime,   *)
(* in any order, for limit >= 0.                                           *)
(***************************************************************************)
MaxLen == 3

MaxTime == 3

HistoryGetDefault == 20

\* The timestamps of the stored entries, in file order.
TimestampLists == UNION {[1 .. n -> 1 .. MaxTime] : n \in 0 .. MaxLen}

HistoryLimits == 0 .. MaxLen + 1 \cup {HistoryGetDefault}

SavedLimits == 0 .. MaxLen + 1 \cup {SavedGetDefault}

Files == [favorites |-> favFile, history |-> histFile,
          saved_weather |-> savedFile]

InitGet ==
    /\ ReqIdle
    /\ procs = <<>>
    /\ favFile = <<>>
    /\ \E ts \in TimestampLists :
          /\ histFile = [i \in DOMAIN ts |->
                           SearchHistoryItem(Word(i), ts[i], TRUE)]
          /\ savedFile = [i \in DOMAIN ts |->
                            SavedWeatherRecord(Location, ts[i], i)]
          /\ fileStat = [k \in Keys |->
                           IF k = "favorites" \/ ts = <<>> THEN "missing"
                           ELSE "ok"]
    /\ clock = MaxTime
    /\ calls = 0
    /\ steps = 0
    /\ detours = 0
    /\ last = [op |-> "none"]

GetSearchHistoryCall ==
    \E limit \in HistoryLimits :
       /\ last' = [op |-> "get_search_history", limit |-> limit,
                   stored |-> StoredHistory, files |-> Files,
                   stats |-> fileStat, ret |-> GetSearchHistory(limit)]
       /\ UNCHANGED <<favFile, histFile, savedFile, fileStat, clock, calls,
                      steps, detours>>
       /\ UNCHANGED <<reqVars, procs>>

GetSavedWeatherCall ==
    \E limit \in SavedLimits :
       /\ last' = [op |-> "get_saved_weather", limit |-> limit,
                   stored |-> StoredSaved, files |-> Files,
                   stats |-> fileStat, ret |-> GetSavedWeather(limit)]
       /\ UNCHANGED <<favFile, histFile, savedFile, fileStat, clock, calls,
                      steps, detours>>
       /\ UNCHANGED <<reqVars, procs>>

NextGet == GetSearchHistoryCall \/ GetSavedWeatherCall

SpecGet == InitGet /\ [][NextGet]_vars

\* C9: get_search_history(limit) and get_saved_weather(limit), limit >= 0,
\* return min(limit, size) entries of the stored collection, each once, in
\* non-increasing timestamp order, no entry left out being newer than one
\* returned; and the files are as they were before the call.
C9_GetNewest ==
    (last.op \in {"get_search_history", "get_saved_weather"}) =>
        LET r == last.ret
            s == last.stored
        IN  /\ Len(r) <= last.limit
            /\ Len(r) = IF last.limit < Len(s) THEN last.limit ELSE Len(s)
            /\ \A k \in 1 .. Len(r) - 1 :
                  r[k].timestamp >= r[k + 1].timestamp
            /\ Range(r) \subseteq Range(s)
            /\ Cardinality(Range(r)) = Len(r)
            /\ \A e \in Range(s) \ Range(r), x \in Range(r) :
                  e.timestamp <= x.timestamp
            /\ Files = last.files
            /\ fileStat = last.stats

\* Two of three records stored oldest first were asked for.
C9_Witness ==
    /\ last.op = "get_saved_weather"
    /\ Len(last.stored) = 3
    /\ last.stored[1].timestamp < last.stored[3].timestamp
    /\ last.limit = 2
    /\ Len(last.ret) = 2
    /\ last.ret[1] = last.stored[3]

(***************************************************************************)
(* SpecImport: import_data on stores whose collections are empty or hold   *)
(* one entry each, with data that gives any of the keys an empty list, a   *)
(* list of one entry, or a value that json cannot serialise.               *)
(***************************************************************************)
StoredLists(k) ==
    {<<>>,
     <<CASE k = "favorites" -> FavoriteLocation("Home", Word(0), 1)
         [] k = "history" -> SearchHistoryItem(Word(0), 1, TRUE)
         [] k = "saved_weather" -> SavedWeatherRecord(Location, 1, 1)>>}

ImportedLists(k) ==
    {<<>>,
     <<CASE k = "favorites" -> FavoriteLocation("Work", Word(1), 0)
         [] k = "history" -> SearchHistoryItem(Word(1), 0, FALSE)
         [] k = "saved_weather" -> SavedWeatherRecord(Location, 0, 2)>>}

ImportedValues(k) ==
    {JsonList(l) : l \in ImportedLists(k)} \cup {Unserialisable}

\* The dictionaries a caller passes: any keys, any of the values.
ImportedData ==
    UNION {{d \in [ks -> UNION {ImportedValues(k) : k \in Keys}] :
               \A k \in ks : d[k] \in ImportedValues(k)} :
           ks \in SUBSET Keys}

\* What the writes of a call do: at most MaxDetours of them fail.
ImportWrites ==
    {w \in [Keys -> WriteOutcomes] :
        Cardinality({k \in Keys : w[k] # "ok"}) <= MaxDetours}

InitImport ==
    /\ ReqIdle
    /\ procs = <<>>
    /\ favFile \in StoredLists("favorites")
    /\ histFile \in StoredLists("history")
    /\ savedFile \in StoredLists("saved_weather")
    /\ fileStat = [k \in Keys |-> IF Files[k] = <<>> THEN "missing" ELSE "ok"]
    /\ clock = 1
    /\ calls = 0
    /\ steps = 0
    /\ detours = 0
    /\ last = [op |-> "none"]

NextImport ==
    \E data \in ImportedData, w \in ImportWrites :
       /\ steps < MaxSteps
       /\ ImportData(data, w)
       /\ steps' = steps + 1
       /\ UNCHANGED <<calls, detours>>
       /\ UNCHANGED <<reqVars, procs>>

SpecImport == InitImport /\ [][NextImport]_vars

\* C10: after import_data(data) whose writes met no I/O error, the file of
\* every collection whose key is in data parses and holds the value given
\* for it, and the file of every other collection is as it was.
C10_ImportOverwrites ==
    (last.op = "import_data" /\ last.w = AllOk) =>
        \A k \in Keys :
           IF k \in DOMAIN last.data
           THEN /\ fileStat[k] = "ok"
                /\ last.data[k].ok
                /\ Files[k] = last.data[k].list
           ELSE /\ Files[k] = last.pre[k]
                /\ fileStat[k] = last.preStat[k]

(***************************************************************************)
(* Claims on failing writes and unreadable files                           *)
(***************************************************************************)
\* The last call was an import_data of serialisable values, and a write it
\* performed failed with an IOError.
ImportWriteFailed ==
    /\ last.op = "import_data"
    /\ \A k \in DOMAIN last.data : last.data[k].ok
    /\ \E k \in DOMAIN last.data : last.w[k] = "ioerror"

\* C11: a mutating store operation returns False whenever a file write it
\* performs fails; here for import_data, whose writes are those of the keys
\* present in data.
C11_FailedWriteReturnsFalse == ImportWriteFailed => last.ret = FALSE

(***************************************************************************)
(* SpecLoad: the calls that load a collection, on stores whose files are   *)
(* missing, hold a list, hold text that is not JSON ("corrupt"), or hold   *)
(* bytes that are not UTF-8 text ("undecodable").  _load_json opens the    *)
(* file with encoding='utf-8' and catches json.JSONDecodeError and IOError *)
(* only: the UnicodeDecodeError of the read, a ValueError, leaves it and   *)
(* the calling operation.                                                  *)
(***************************************************************************)
FileStats == {"missing", "ok", "corrupt", "undecodable"}

\* _load_json lets the error of the read out.
LoadRaises(k) == fileStat[k] = "undecodable"

\* The call ends with the error; nothing was written.
RaiseOut(k) ==
    /\ last' = [op |-> "UnicodeDecodeError", key |-> k]
    /\ UNCHANGED <<favFile, histFile, savedFile, fileStat, clock>>

\* A getter that returned.
GetReturned(op, ret) ==
    /\ last' = [op |-> op, stats |-> fileStat, ret |-> ret]
    /\ UNCHANGED <<favFile, histFile, savedFile, fileStat, clock>>

InitLoad ==
    /\ ReqIdle
    /\ procs = <<>>
    /\ fileStat \in [Keys -> FileStats]
    /\ favFile \in StoredLists("favorites")
    /\ histFile \in StoredLists("history")
    /\ savedFile \in StoredLists("saved_weather")
    /\ \A k \in Keys : fileStat[k] # "ok" => Files[k] = <<>>
    /\ clock = 1
    /\ calls = 0
    /\ steps = 0
    /\ detours = 0
    /\ last = [op |-> "none"]

LoadCounted ==
    /\ steps < MaxSteps
    /\ steps' = steps + 1
    /\ UNCHANGED <<calls, detours>>
    /\ UNCHANGED <<reqVars, procs>>

GetFavoritesStep ==
    /\ LoadCounted
    /\ IF LoadRaises("favorites") THEN RaiseOut("favorites")
       ELSE GetReturned("get_favorites", GetFavorites)

GetSearchHistoryStep ==
    /\ LoadCounted
    /\ IF LoadRaises("history") THEN RaiseOut("history")
       ELSE GetReturned("get_search_history",
                        GetSearchHistory(HistoryGetDefault))

GetSavedWeatherStep ==
    /\ LoadCounted
    /\ IF LoadRaises("saved_weather") THEN RaiseOut("saved_weather")
       ELSE GetReturned("get_saved_weather", GetSavedWeather(SavedGetDefault))

AddFavoriteStep ==
    \E w \in WriteOutcomes :
       /\ LoadCounted
       /\ IF LoadRaises("favorites") THEN RaiseOut("favorites")
          ELSE /\ AddFavorite("Work", Word(1), clock + 1, w)
               /\ UNCHANGED <<histFile, savedFile>>

AddSearchHistoryStep ==
    \E w \in WriteOutcomes :
       /\ LoadCounted
       /\ IF LoadRaises("history") THEN RaiseOut("history")
          ELSE /\ AddSearchHistory(Word(1), TRUE, clock + 1, w)
               /\ UNCHANGED <<favFile, savedFile>>

SaveWeatherRecordStep ==
    \E w \in WriteOutcomes :
       /\ LoadCounted
       /\ IF LoadRaises("saved_weather") THEN RaiseOut("saved_weather")
          ELSE /\ SaveWeatherRecord(Location, 2, clock + 1, w)
               /\ UNCHANGED <<favFile, histFile>>

NextLoad ==
    \/ GetFavoritesStep
    \/ GetSearchHistoryStep
    \/ GetSavedWeatherStep
    \/ AddFavoriteStep
    \/ AddSearchHistoryStep
    \/ SaveWeatherRecordStep

SpecLoad == InitLoad /\ [][NextLoad]_vars

\* The file a getter loads.
KeyOf(op) ==
    CASE op = "get_favorites" -> "favorites"
      [] op = "get_search_history" -> "history"
      [] op = "get_saved_weather" -> "saved_weather"

\* C12: a call that loads a file that is missing or does not parse does not
\* raise; get_favorites, get_search_history and get_saved_weather return []
\* on such a file, and an add whose write succeeds leaves a collection that
\* holds the new entry only.
C12_LoadDefaults ==
    /\ last.op # "UnicodeDecodeError"
    /\ (last.op \in {"get_favorites", "get_search_history",
                     "get_saved_weather"}
          /\ last.stats[KeyOf(last.op)] # "ok") => last.ret = <<>>
    /\ (last.op = "add_favorite" /\ last.stat # "ok" /\ last.w = "ok") =>
          /\ Len(GetFavorites) = 1
          /\ GetFavorites[1].name = last.name
          /\ GetFavorites[1].query = last.query
    /\ (last.op = "add_search_history" /\ last.stat # "ok"
          /\ last.w = "ok") =>
          StoredHistory =
             <<SearchHistoryItem(last.query, last.now, last.success)>>
    /\ (last.op = "save_weather_record" /\ last.stat # "ok"
          /\ last.w = "ok") => StoredSaved = <<last.record>>

(***************************************************************************)
(* Location input (utils.py)                                               *)
(*                                                                         *)
(* A string is a sequence of characters.  A Hangul syllable is written as  *)
(* its romanisation ("seo", "ul"): one character of the string.  A number  *)
(* read by float() is [neg, mag]: its sign and its magnitude in units of   *)
(* 10^-FracDigits, exact for the numerals of the inputs (a double is exact *)
(* to 15 significant digits).                                              *)
(***************************************************************************)
FracDigits == 2

Digits == <<"0", "1", "2", "3", "4", "5", "6", "7", "8", "9">>

IsDigit(c) == \E i \in DOMAIN Digits : Digits[i] = c

DigitVal(c) == (CHOOSE i \in DOMAIN Digits : Digits[i] = c) - 1

IsSpace(c) == c \in {" ", "\t", "\n"}

\* str.strip()
RECURSIVE LStrip(_)
LStrip(s) == IF s # <<>> /\ IsSpace(s[1]) THEN LStrip(Tail(s)) ELSE s

RECURSIVE RStrip(_)
RStrip(s) ==
    IF s # <<>> /\ IsSpace(s[Len(s)]) THEN RStrip(SubSeq(s, 1, Len(s) - 1))
    ELSE s

Strip(s) == RStrip(LStrip(s))

\* a in b, for strings
Contains(a, b) ==
    \E i \in 0 .. Len(b) - Len(a) : SubSeq(b, i + 1, i + Len(a)) = a

\* The first entries of KOREAN_CITY_MAPPING, in insertion order.
KOREAN_CITY_MAPPING ==
    <<[k |-> <<"seo", "ul">>, v |-> <<"S", "e", "o", "u", "l", ",", "K", "R">>],
      [k |-> <<"bu", "san">>, v |-> <<"B", "u", "s", "a", "n", ",", "K", "R">>],
      [k |-> <<"dae", "gu">>, v |-> <<"D", "a", "e", "g", "u", ",", "K", "R">>],
      [k |-> <<"in", "cheon">>,
       v |-> <<"I", "n", "c", "h", "e", "o", "n", ",", "K", "R">>],
      [k |-> <<"gwang", "ju">>,
       v |-> <<"G", "w", "a", "n", "g", "j", "u", ",", "K", "R">>],
      [k |-> <<"dae", "jeon">>,
       v |-> <<"D", "a", "e", "j", "e", "o", "n", ",", "K", "R">>],
      [k |-> <<"ul", "san">>, v |-> <<"U", "l", "s", "a", "n", ",", "K", "R">>]>>

\* Mutant of TranslateKoreanCity: the partial match is left out.
TranslateKoreanCityExact(city_name) ==
    LET name == Strip(city_name)
        exact == {i \in DOMAIN KOREAN_CITY_MAPPING :
                     KOREAN_CITY_MAPPING[i].k = name}
    IN  IF exact # {} THEN KOREAN_CITY_MAPPING[CHOOSE i \in exact : TRUE].v
        ELSE name

\* translate_korean_city(city_name)
TranslateKoreanCity(city_name) ==
    LET name == Strip(city_name)
        exact == {i \in DOMAIN KOREAN_CITY_MAPPING :
                     KOREAN_CITY_MAPPING[i].k = name}
        partial == {i \in DOMAIN KOREAN_CITY_MAPPING :
                       \/ Contains(KOREAN_CITY_MAPPING[i].k, name)
                       \/ Contains(name, KOREAN_CITY_MAPPING[i].k)}
        First(S) == CHOOSE i \in S : \A j \in S : i <= j
    IN  IF exact # {} THEN KOREAN_CITY_MAPPING[First(exact)].v
        ELSE IF partial # {} THEN KOREAN_CITY_MAPPING[First(partial)].v
        ELSE name

\* -?\d+\.?\d*
NumberForm(t) ==
    LET u == IF t # <<>> /\ t[1] = "-" THEN Tail(t) ELSE t
    IN  /\ u # <<>>
        /\ IsDigit(u[1])
        /\ \A i \in DOMAIN u : IsDigit(u[i]) \/ u[i] = "."
        /\ Cardinality({i \in DOMAIN u : u[i] = "."}) <= 1

CommasOf(s) == {i \in DOMAIN s : s[i] = ","}

\* re.match(r'^-?\d+\.?\d*,-?\d+\.?\d*$', s)
CoordPattern(s) ==
    /\ Cardinality(CommasOf(s)) = 1
    /\ LET c == CHOOSE i \in CommasOf(s) : TRUE
       IN  /\ NumberForm(SubSeq(s, 1, c - 1))
           /\ NumberForm(SubSeq(s, c + 1, Len(s)))

\* The value of a string of digits.
RECURSIVE NatOf(_)
NatOf(d) ==
    IF d = <<>> THEN 0
    ELSE 10 * NatOf(SubSeq(d, 1, Len(d) - 1)) + DigitVal(d[Len(d)])

\* float(t) of a numeral of the form -?\d+\.?\d*
FloatOf(t) ==
    LET neg == t[1] = "-"
        u == IF neg THEN Tail(t) ELSE t
        dots == {i \in DOMAIN u : u[i] = "."}
        dot == IF dots = {} THEN Len(u) + 1 ELSE CHOOSE i \in dots : TRUE
        frac == SubSeq(u, dot + 1, Len(u))
    IN  [neg |-> neg,
         mag |-> NatOf(SubSeq(u, 1, dot - 1)) * Pow10(FracDigits)
                   + NatOf(frac) * Pow10(FracDigits - Len(frac))]

\* The number as a signed count of units.
Units(x) == IF x.neg THEN 0 - x.mag ELSE x.mag

\* The digits of n, without leading zeros.
RECURSIVE NatStr(_)
NatStr(n) ==
    IF n < 10 THEN <<Digits[n + 1]>>
    ELSE Append(NatStr(n \div 10), Digits[(n % 10) + 1])

\* The first digits of the fraction f of width w, trailing zeros dropped.
RECURSIVE FracStr(_, _)
FracStr(f, w) ==
    IF f = 0 THEN <<>>
    ELSE <<Digits[(f \div Pow10(w - 1)) + 1]>>
            \o FracStr(f % Pow10(w - 1), w - 1)

\* Mutant of StrOfFloat: the sign is lost.
StrOfFloatUnsigned(x) ==
    LET f == FracStr(x.mag % Pow10(FracDigits), FracDigits)
    IN  NatStr(x.mag \div Pow10(FracDigits))
           \o <<".">> \o (IF f = <<>> THEN <<"0">> ELSE f)

\* str(x) of a float: the shortest numeral that reads back as x, always
\* with a fraction part.
StrOfFloat(x) ==
    LET f == FracStr(x.mag % Pow10(FracDigits), FracDigits)
    IN  (IF x.neg THEN <<"-">> ELSE <<>>)
           \o NatStr(x.mag \div Pow10(FracDigits))
           \o <<".">> \o (IF f = <<>> THEN <<"0">> ELSE f)

Raised(error) == [raised |-> TRUE, error |-> error]

Result(value) == [raised |-> FALSE, value |-> value]

\* Mutant of ParseCoordinates: the longitude is validated first.
ParseCoordinatesLonFirst(s) ==
    LET c == CHOOSE i \in CommasOf(s) : TRUE
        lat == FloatOf(SubSeq(s, 1, c - 1))
        lon == FloatOf(SubSeq(s, c + 1, Len(s)))
    IN  IF ~(Units(lon) >= 0 - 180 * Pow10(FracDigits)
               /\ Units(lon) <= 180 * Pow10(FracDigits))
        THEN Raised("longitude")
        ELSE IF ~(Units(lat) >= 0 - 90 * Pow10(FracDigits)
                    /\ Units(lat) <= 90 * Pow10(FracDigits))
        THEN Raised("latitude")
        ELSE Result([lat |-> StrOfFloat(lat), lon |-> StrOfFloat(lon)])

\* The body of the coordinate branch.
ParseCoordinates(s) ==
    LET c == CHOOSE i \in CommasOf(s) : TRUE
        lat == FloatOf(SubSeq(s, 1, c - 1))
        lon == FloatOf(SubSeq(s, c + 1, Len(s)))
    IN  IF ~(Units(lat) >= 0 - 90 * Pow10(FracDigits)
               /\ Units(lat) <= 90 * Pow10(FracDigits))
        THEN Raised("latitude")
        ELSE IF ~(Units(lon) >= 0 - 180 * Pow10(FracDigits)
                    /\ Units(lon) <= 180 * Pow10(FracDigits))
        THEN Raised("longitude")
        ELSE Result([lat |-> StrOfFloat(lat), lon |-> StrOfFloat(lon)])

\* parse_location_input(location_str)
ParseLocationInput(location_str) ==
    IF Strip(location_str) = <<>> THEN Raised("empty")
    ELSE LET s == Strip(location_str)
             translated == TranslateKoreanCity(s)
         IN  IF translated # s THEN Result([q |-> translated])
             ELSE IF CoordPattern(s) THEN ParseCoordinates(s)
             ELSE Result([q |-> s])

(***************************************************************************)
(* SpecParse: parse_location_input on coordinate numerals around the       *)
(* bounds of the ranges, on Hangul names, on blank strings and on strings  *)
(* that are neither.                                                       *)
(***************************************************************************)
Numerals ==
    {s \o i \o f :
        s \in {<<>>, <<"-">>},
        i \in {<<"0">>, <<"7">>, <<"9", "0">>, <<"9", "1">>, <<"1", "8", "0">>,
               <<"1", "8", "1">>, <<"0", "0", "7">>},
        f \in {<<>>, <<".">>, <<".", "0">>, <<".", "5">>, <<".", "5", "0">>,
               <<".", "0", "1">>}}

CoordinateInputs == {a \o <<",">> \o b : a \in Numerals, b \in Numerals}

Syllables == {"seo", "ul", "san", "si", "dae"}

HangulInputs == UNION {[1 .. n -> Syllables] : n \in 1 .. 3}

BlankInputs == {<<>>, <<" ">>, <<" ", "\t">>, <<"\n">>}

OtherInputs ==
    {<<"S", "e", "o", "u", "l", ",", "K", "R">>,
     <<"S", "e", "o", "u", "l">>,
     <<"1", "e", "3", ",", "5">>,
     <<"1", ",", "2", ",", "3">>,
     <<"1", ",">>,
     <<",", "1">>,
     <<"-", ",", "1">>,
     <<".", "5", ",", "1">>,
     <<"1", ".", "2", ".", "3", ",", "4">>,
     <<"1", " ", ",", "2">>,
     <<"+", "1", ",", "2">>,
     <<"9", "1">>,
     <<" ", "9", "1", ",", "1", "8", "1", " ">>,
     <<" ", "7", ".", "5", "0", ",", "-", "7", "\n">>,
     <<" ", "seo", "ul", " ">>,
     <<"seo", "ul", "7", ",", "7">>}

LocationInputs ==
    CoordinateInputs \cup HangulInputs \cup BlankInputs \cup OtherInputs

\* A caller is about to pass location_str.
InitParse ==
    /\ ReqIdle
    /\ procs = <<>>
    /\ favFile = <<>>
    /\ histFile = <<>>
    /\ savedFile = <<>>
    /\ fileStat = [k \in Keys |-> "missing"]
    /\ clock = 0
    /\ calls = 0
    /\ steps = 0
    /\ detours = 0
    /\ \E location_str \in LocationInputs :
          last = [op |-> "call", location_str |-> location_str]

NextParse ==
    /\ last.op = "call"
    /\ last' = [op |-> "parse_location_input",
                location_str |-> last.location_str,
                ret |-> ParseLocationInput(last.location_str)]
    /\ UNCHANGED <<favFile, histFile, savedFile, fileStat, clock, calls,
                   steps, detours>>
    /\ UNCHANGED <<reqVars, procs>>

SpecParse == InitParse /\ [][NextParse]_vars

(***************************************************************************)
(* Claims on parse_location_input                                          *)
(***************************************************************************)
Parsed == last.op = "parse_location_input"

\* The trimmed input of the last call, and its two numerals when it has the
\* form of a coordinate pair.
Trimmed == Strip(last.location_str)

LatStr == SubSeq(Trimmed, 1, (CHOOSE i \in CommasOf(Trimmed) : TRUE) - 1)

LonStr ==
    SubSeq(Trimmed, (CHOOSE i \in CommasOf(Trimmed) : TRUE) + 1, Len(Trimmed))

InRange(t, bound) ==
    /\ Units(FloatOf(t)) >= 0 - bound * Pow10(FracDigits)
    /\ Units(FloatOf(t)) <= bound * Pow10(FracDigits)

\* C13: for an input "lat,lon" that matches the coordinate pattern with lat
\* in [-90, 90] and lon in [-180, 180], parse_location_input returns a
\* structure with exactly the keys lat and lon, whose values are numerals
\* of the input's latitude and longitude.
C13_CoordinatesParsed ==
    (Parsed /\ CoordPattern(Trimmed) /\ InRange(LatStr, 90)
       /\ InRange(LonStr, 180)) =>
        /\ ~last.ret.raised
        /\ DOMAIN last.ret.value = {"lat", "lon"}
        /\ NumberForm(last.ret.value.lat)
        /\ NumberForm(last.ret.value.lon)
        /\ Units(FloatOf(last.ret.value.lat)) = Units(FloatOf(LatStr))
        /\ Units(FloatOf(last.ret.value.lon)) = Units(FloatOf(LonStr))

\* "-90.50,180" is not in range, "-90.0,180.00" is, and was parsed.
C13_Witness ==
    /\ Parsed
    /\ last.location_str =
          <<"-", "9", "0", ".", "0", ",", "1", "8", "0", ".", "0">>
    /\ ~last.ret.raised
    /\ last.ret.value.lon = <<"1", "8", "0", ".", "0">>

\* C14: for a valid coordinate input "lat,lon" parse_location_input returns
\* the lat and lon strings exactly as they are written in the input.
C14_CoordinatesVerbatim ==
    (Parsed /\ CoordPattern(Trimmed) /\ ~last.ret.raised) =>
        /\ last.ret.value.lat = LatStr
        /\ last.ret.value.lon = LonStr

\* C15: parse_location_input raises exactly when the input is empty or
\* blank, or the input is not translated, matches the coordinate pattern
\* and has its latitude outside [-90, 90] or its longitude outside
\* [-180, 180]; the range error names the latitude when the latitude is out
\* of range and the longitude otherwise.
C15_RaisesExactly ==
    Parsed =>
        LET coords == /\ Trimmed # <<>>
                      /\ TranslateKoreanCity(Trimmed) = Trimmed
                      /\ CoordPattern(Trimmed)
            latOut == coords /\ ~InRange(LatStr, 90)
            lonOut == coords /\ ~InRange(LonStr, 180)
        IN  /\ last.ret.raised <=> (Trimmed = <<>> \/ latOut \/ lonOut)
            /\ latOut => last.ret.error = "latitude"
            /\ (lonOut /\ ~latOut) => last.ret.error = "longitude"
            /\ Trimmed = <<>> => last.ret.error = "empty"

\* Both numerals were out of range and the error named the latitude.
C15_Witness ==
    /\ Parsed
    /\ CoordPattern(Trimmed)
    /\ ~InRange(LatStr, 90)
    /\ ~InRange(LonStr, 180)
    /\ last.ret = Raised("latitude")

\* The table entries whose key is, contains or is contained in the string.
KeysMatching(s) ==
    {i \in DOMAIN KOREAN_CITY_MAPPING :
        LET k == KOREAN_CITY_MAPPING[i].k
        IN  k = s \/ Contains(k, s) \/ Contains(s, k)}

\* C16: a non-blank input that is a key of the table, or else contains or
\* is contained in one, returns {q: the value of that key}, the first such
\* key in insertion order, whether or not it matches the coordinate
\* pattern; an input that is neither translated nor a coordinate pair
\* returns {q: the trimmed input}.
C16_TranslationFirst ==
    (Parsed /\ Trimmed # <<>>) =>
        LET exact == {i \in KeysMatching(Trimmed) :
                         KOREAN_CITY_MAPPING[i].k = Trimmed}
            from == IF exact # {} THEN exact ELSE KeysMatching(Trimmed)
            first == CHOOSE i \in from : \A j \in from : i <= j
        IN  IF from # {} /\ KOREAN_CITY_MAPPING[first].v # Trimmed
            THEN last.ret = Result([q |-> KOREAN_CITY_MAPPING[first].v])
            ELSE ~CoordPattern(Trimmed) => last.ret = Result([q |-> Trimmed])

\* "ul" is part of the keys "seo ul" and "ul san": the first one won.
C16_Witness ==
    /\ Parsed
    /\ last.location_str = <<"ul">>
    /\ last.ret = Result([q |-> <<"S", "e", "o", "u", "l", ",", "K", "R">>])

(***************************************************************************)
(* Forecast aggregation (api.py)                                           *)
(*                                                                         *)
(* A forecast entry is [timestamp, temperature, pop, humidity, wind_speed, *)
(* weather_icon, weather_description]; timestamps are seconds since the    *)
(* epoch, temperatures tenths of a degree.  A quotient a / b of the code   *)
(* is the pair [sum |-> a, len |-> b].  What a call of the client returns  *)
(* or raises is Result(value) or Raised("WeatherAPIError").                *)
(***************************************************************************)
SecondsPerDay == 86400

SecondsPerHour == 3600

\* time.strftime('%Y-%m-%d', time.gmtime(timestamp)): the UTC day.
DateOf(timestamp) == timestamp \div SecondsPerDay

\* min(l), max(l), sum(l) of a list that is not empty
MinOf(l) == CHOOSE x \in Range(l) : \A y \in Range(l) : x <= y

\* Mutant of MaxOf: the first element is taken.
MaxOfFirst(l) == l[1]

MaxOf(l) == CHOOSE x \in Range(l) : \A y \in Range(l) : x >= y

RECURSIVE SumOf(_)
SumOf(l) == IF l = <<>> THEN 0 ELSE l[1] + SumOf(Tail(l))

Mean(l) == [sum |-> SumOf(l), len |-> Len(l)]

\* The keys of daily_data in insertion order: each date where it is first
\* met.
DatesInOrder(forecasts) ==
    LET date == [i \in DOMAIN forecasts |-> DateOf(forecasts[i].timestamp)]
        first == SelectSeq([i \in DOMAIN forecasts |-> i],
                           LAMBDA i : \A j \in 1 .. i - 1 : date[j] # date[i])
    IN  [k \in DOMAIN first |-> date[first[k]]]

\* daily_data[date]: the entries of the date, in input order.
EntriesOf(forecasts, date) ==
    SelectSeq(forecasts, LAMBDA f : DateOf(f.timestamp) = date)

\* Mutant of MostCommonIcon: among equals the one met last.
MostCommonIconLast(icons) ==
    LET Count(c) == Cardinality({i \in DOMAIN icons : icons[i] = c})
        FirstAt(c) == CHOOSE i \in DOMAIN icons :
                         icons[i] = c /\ \A j \in 1 .. i - 1 : icons[j] # c
        best == {c \in Range(icons) : \A d \in Range(icons) : Count(c) >= Count(d)}
    IN  CHOOSE c \in best : \A d \in best : FirstAt(c) >= FirstAt(d)

\* max(icon_counts.items(), key=lambda x: x[1])[0]: the icon counted most
\* often, the one met first among equals.
MostCommonIcon(icons) ==
    LET Count(c) == Cardinality({i \in DOMAIN icons : icons[i] = c})
        FirstAt(c) == CHOOSE i \in DOMAIN icons :
                         icons[i] = c /\ \A j \in 1 .. i - 1 : icons[j] # c
        best == {c \in Range(icons) : \A d \in Range(icons) : Count(c) >= Count(d)}
    IN  CHOOSE c \in best : \A d \in best : FirstAt(c) <= FirstAt(d)

Column(entries, field) == [i \in DOMAIN entries |-> entries[i][field]]

\* One element of daily_forecasts.
DailySummary(date, entries) ==
    [date |-> date,
     temp_min |-> MinOf(Column(entries, "temperature")),
     temp_max |-> MaxOf(Column(entries, "temperature")),
     temp_avg |-> Mean(Column(entries, "temperature")),
     weather_icon |-> MostCommonIcon(Column(entries, "weather_icon")),
     weather_description |-> entries[1].weather_description,
     humidity_avg |-> Mean(Column(entries, "humidity")),
     wind_speed_avg |-> Mean(Column(entries, "wind_speed")),
     pop_max |-> MaxOf(Column(entries, "pop"))]

\* get_daily_forecast(location, units, days); forecast is what get_forecast
\* returns or raises.
GetDailyForecast(forecast, days) ==
    IF forecast.raised THEN forecast
    ELSE LET dates == Slice(DatesInOrder(forecast.value), days)
         IN  Result([i \in DOMAIN dates |->
                       DailySummary(dates[i],
                                    EntriesOf(forecast.value, dates[i]))])


(***************************************************************************)
(* SpecDaily: get_daily_forecast(location, units, days) for days >= 0 on   *)
(* what get_forecast gives: an error, any list of up to MaxEntries entries *)
(* at three instants of two dates, or a full run of ForecastEntries        *)
(* entries three hours apart that starts at 00:00 or at 15:00 UTC.         *)
(***************************************************************************)
MaxEntries == 3

ForecastEntries == 40

\* One ForecastData of get_forecast.
ForecastData(timestamp, temperature, pop) ==
    [timestamp |-> timestamp,
     temperature |-> temperature,
     weather_main |-> IF temperature < 0 THEN "Snow" ELSE "Clear",
     weather_description |-> IF temperature < 0 THEN "snow" ELSE "clear sky",
     weather_icon |-> IF temperature < 0 THEN "13d" ELSE "01d",
     humidity |-> 60 + temperature,
     wind_speed |-> 3,
     pop |-> pop]

Instants == {0, 21 * SecondsPerHour, SecondsPerDay}

Weathers == {<<-5, 0>>, <<7, 0>>, <<-5, 50>>}

ShortForecasts ==
    UNION {[1 .. n -> {ForecastData(t, w[1], w[2]) :
                          t \in Instants, w \in Weathers}] :
           n \in 0 .. MaxEntries}

\* The entries of a full answer of the forecast endpoint.
ThreeHourly(start) ==
    [i \in 1 .. ForecastEntries |->
       ForecastData(start + (i - 1) * 3 * SecondsPerHour,
                    ((i * 7) % 11) - 3, ((i * 5) % 4) * 25)]

FullForecasts == {ThreeHourly(0), ThreeHourly(15 * SecondsPerHour)}

ForecastOutcomes ==
    {Raised("WeatherAPIError")}
        \cup {Result(l) : l \in ShortForecasts \cup FullForecasts}

DayCounts == {0, 1, 2, 5, 6, 7}

InitDaily ==
    /\ ReqIdle
    /\ procs = <<>>
    /\ favFile = <<>>
    /\ histFile = <<>>
    /\ savedFile = <<>>
    /\ fileStat = [k \in Keys |-> "missing"]
    /\ clock = 0
    /\ calls = 0
    /\ steps = 0
    /\ detours = 0
    /\ \E forecast \in ForecastOutcomes, days \in DayCounts :
          last = [op |-> "call", forecast |-> forecast, days |-> days]

NextDaily ==
    /\ last.op = "call"
    /\ last' = [op |-> "get_daily_forecast",
                forecast |-> last.forecast,
                days |-> last.days,
                ret |-> GetDailyForecast(last.forecast, last.days)]
    /\ UNCHANGED <<favFile, histFile, savedFile, fileStat, clock, calls,
                   steps, detours>>
    /\ UNCHANGED <<reqVars, procs>>

SpecDaily == InitDaily /\ [][NextDaily]_vars


\* The places of the entries of forecasts whose UTC date is date.
PlacesOf(forecasts, date) ==
    {i \in DOMAIN forecasts : DateOf(forecasts[i].timestamp) = date}

RECURSIVE SumAt(_, _, _)
SumAt(forecasts, field, places) ==
    IF places = {} THEN 0
    ELSE LET i == CHOOSE p \in places : TRUE
         IN  forecasts[i][field] + SumAt(forecasts, field, places \ {i})

\* C17: for every summary get_daily_forecast returns, the forecast has at
\* least one entry of the summary's UTC date, and over exactly the entries
\* of that date temp_max is the largest and temp_min the smallest
\* temperature, temp_avg is their sum divided by their number, and pop_max
\* is the largest precipitation probability.
C17_DailyAggregates ==
    (last.op = "get_daily_forecast" /\ ~last.ret.raised) =>
        LET f == last.forecast.value
        IN  \A k \in DOMAIN last.ret.value :
               LET d == last.ret.value[k]
                   places == PlacesOf(f, d.date)
                   temps == {f[i].temperature : i \in places}
                   pops == {f[i].pop : i \in places}
               IN  /\ places # {}
                   /\ d.temp_max \in temps
                   /\ \A t \in temps : t <= d.temp_max
                   /\ d.temp_min \in temps
                   /\ \A t \in temps : d.temp_min <= t
                   /\ d.temp_avg.len = Cardinality(places)
                   /\ d.temp_avg.sum = SumAt(f, "temperature", places)
                   /\ d.pop_max \in pops
                   /\ \A p \in pops : p <= d.pop_max

\* Three entries of one date were summarised, the first of them neither the
\* warmest nor the wettest.
C17_Witness ==
    /\ last.op = "get_daily_forecast"
    /\ ~last.ret.raised
    /\ Len(last.forecast.value) = 3
    /\ last.forecast.value[1].temperature = -5
    /\ last.forecast.value[1].pop = 0
    /\ Len(last.ret.value) = 1
    /\ last.ret.value[1].temp_max = 7
    /\ last.ret.value[1].temp_min = -5
    /\ last.ret.value[1].temp_avg = [sum |-> -3, len |-> 3]
    /\ last.ret.value[1].pop_max = 50

\* The distinct UTC dates of the entries.
DatesOf(forecasts) ==
    {DateOf(forecasts[i].timestamp) : i \in DOMAIN forecasts}

\* The place where a date is first met.
FirstPlace(forecasts, date) ==
    CHOOSE i \in PlacesOf(forecasts, date) :
       \A j \in PlacesOf(forecasts, date) : i <= j

\* C18: get_daily_forecast(days), days >= 0, returns the summaries of the
\* first dates of the forecast in the order they are first met, each date
\* once and none that is not the date of an entry, as many of them as there
\* are dates but no more than days and no more than 5.
C18_DailyPerDate ==
    (last.op = "get_daily_forecast" /\ ~last.ret.raised) =>
        LET f == last.forecast.value
            r == last.ret.value
            dates == DatesOf(f)
            n == Cardinality(dates)
            most == IF last.days < 5 THEN last.days ELSE 5
        IN  /\ \A k \in DOMAIN r : r[k].date \in dates
            /\ \A j, k \in DOMAIN r :
                  j < k => FirstPlace(f, r[j].date) < FirstPlace(f, r[k].date)
            /\ \A d \in dates \ {r[k].date : k \in DOMAIN r} :
                  \A k \in DOMAIN r :
                     FirstPlace(f, r[k].date) < FirstPlace(f, d)
            /\ Len(r) = IF n < most THEN n ELSE most


(***************************************************************************)
(* get_current_weather, get_weekly_forecast, get_multiple_cities_weather   *)
(* (src/api.py).  An answer of _make_request is Raised("WeatherAPIError")  *)
(* or Result(data), data being the parsed JSON.                            *)
(***************************************************************************)
\* get_current_weather(location, units); response is the answer of the
\* weather endpoint.
GetCurrentWeather(response) ==
    IF response.raised THEN response
    ELSE LET data == response.value
         IN  Result([city |-> data.name,
                     timestamp |-> data.dt,
                     temperature |-> data.main.temp,
                     humidity |-> data.main.humidity,
                     lat |-> data.coord.lat,
                     lon |-> data.coord.lon])

\* int(time.mktime(time.strptime(day['date'], '%Y-%m-%d'))): midnight of
\* the date, for a process whose local time is UTC.
MkTime(date) == date * SecondsPerDay

\* int(x) of a mean that is not negative.
IntOf(mean) == mean.sum \div mean.len

FallbackDays == 5

WeeklyDays == 7

\* Mutant of DailyFromSummary: the night temperature is the maximum.
DailyFromSummaryNightMax(day) ==
    [timestamp |-> MkTime(day.date),
     temp_day |-> day.temp_avg,
     temp_min |-> day.temp_min,
     temp_max |-> day.temp_max,
     temp_night |-> day.temp_max,
     temp_eve |-> day.temp_avg,
     temp_morn |-> day.temp_avg,
     feels_like_day |-> day.temp_avg,
     humidity |-> IntOf(day.humidity_avg),
     wind_speed |-> day.wind_speed_avg,
     weather_main |-> day.weather_description,
     weather_description |-> day.weather_description,
     weather_icon |-> day.weather_icon,
     sunrise |-> 0,
     sunset |-> 0,
     uvi |-> 0]

\* The DailyForecastData built from one summary of get_daily_forecast.
DailyFromSummary(day) ==
    [timestamp |-> MkTime(day.date),
     temp_day |-> day.temp_avg,
     temp_min |-> day.temp_min,
     temp_max |-> day.temp_max,
     temp_night |-> day.temp_min,
     temp_eve |-> day.temp_avg,
     temp_morn |-> day.temp_avg,
     feels_like_day |-> day.temp_avg,
     humidity |-> IntOf(day.humidity_avg),
     wind_speed |-> day.wind_speed_avg,
     weather_main |-> day.weather_description,
     weather_description |-> day.weather_description,
     weather_icon |-> day.weather_icon,
     sunrise |-> 0,
     sunset |-> 0,
     uvi |-> 0]

\* The DailyForecastData built from one element of 'daily' of the onecall
\* answer.
DailyFromOneCall(day_data) ==
    [timestamp |-> day_data.dt,
     temp_day |-> day_data.temp.day,
     temp_min |-> day_data.temp.min,
     temp_max |-> day_data.temp.max,
     temp_night |-> day_data.temp.night,
     temp_eve |-> day_data.temp.eve,
     temp_morn |-> day_data.temp.morn,
     feels_like_day |-> day_data.feels_like.day,
     humidity |-> day_data.humidity,
     wind_speed |-> day_data.wind_speed,
     weather_main |-> day_data.weather[1].main,
     weather_description |-> day_data.weather[1].description,
     weather_icon |-> day_data.weather[1].icon,
     sunrise |-> day_data.sunrise,
     sunset |-> day_data.sunset,
     uvi |-> day_data.uvi]

WeeklyForecastData(daily_forecasts) ==
    Result([daily_forecasts |-> daily_forecasts])

\* The except branch of get_weekly_forecast.
WeeklyFallback(forecast) ==
    LET daily_basic == GetDailyForecast(forecast, FallbackDays)
    IN  IF daily_basic.raised THEN daily_basic
        ELSE WeeklyForecastData([i \in DOMAIN daily_basic.value |->
                                   DailyFromSummary(daily_basic.value[i])])

\* Mutant of GetWeeklyForecast: the error of the onecall endpoint is not
\* caught.
GetWeeklyForecastUncaught(location, weather, onecall, forecast) ==
    IF "q" \in DOMAIN location /\ GetCurrentWeather(weather).raised
    THEN GetCurrentWeather(weather)
    ELSE IF onecall.raised THEN onecall
    ELSE LET daily == IF "daily" \in DOMAIN onecall.value
                      THEN onecall.value.daily ELSE <<>>
             week == Slice(daily, WeeklyDays)
         IN  WeeklyForecastData([i \in DOMAIN week |->
                                   DailyFromOneCall(week[i])])

\* get_weekly_forecast(location, units); weather, onecall and forecast are
\* the answers of the weather and onecall endpoints and of get_forecast.
GetWeeklyForecast(location, weather, onecall, forecast) ==
    IF "q" \in DOMAIN location /\ GetCurrentWeather(weather).raised
    THEN GetCurrentWeather(weather)
    ELSE IF onecall.raised THEN WeeklyFallback(forecast)
    ELSE LET daily == IF "daily" \in DOMAIN onecall.value
                      THEN onecall.value.daily ELSE <<>>
             week == Slice(daily, WeeklyDays)
         IN  WeeklyForecastData([i \in DOMAIN week |->
                                   DailyFromOneCall(week[i])])

\* Mutant of GetMultipleCitiesWeather: the error of a fetch is not caught.
GetMultipleCitiesWeatherUncaught(cities, responses) ==
    LET weather == [i \in DOMAIN cities |-> GetCurrentWeather(responses[i])]
        failed == SelectSeq(weather, LAMBDA w : w.raised)
    IN  IF failed # <<>> THEN failed[1]
        ELSE Result([k \in DOMAIN weather |-> weather[k].value])

\* get_multiple_cities_weather(cities, units); responses[i] is the answer
\* of the weather endpoint to the request for cities[i].
GetMultipleCitiesWeather(cities, responses) ==
    LET weather == [i \in DOMAIN cities |-> GetCurrentWeather(responses[i])]
        fetched == SelectSeq(weather, LAMBDA w : ~w.raised)
    IN  Result([k \in DOMAIN fetched |-> fetched[k].value])

(***************************************************************************)
(* SpecWeekly: get_weekly_forecast for a location given by name or by      *)
(* coordinates, with every combination of the answers of the weather       *)
(* endpoint, the onecall endpoint (an error, no 'daily', or 0 to           *)
(* MaxOneCallDays days) and get_forecast.                                  *)
(***************************************************************************)
MaxOneCallDays == 8

Cities == {"Seoul", "Busan"}

\* The answer of the weather endpoint for a city; n tells answers apart.
WeatherResponse(city, n) ==
    [name |-> city,
     dt |-> n,
     main |-> [temp |-> 10 + n, humidity |-> 50],
     coord |-> [lat |-> IF city = "Seoul" THEN 37 ELSE 35,
                lon |-> IF city = "Seoul" THEN 126 ELSE 129]]

WeatherOutcomes(city, n) ==
    {Raised("WeatherAPIError"), Result(WeatherResponse(city, n))}

WeeklyLocations == {[q |-> "Seoul"], [lat |-> 37, lon |-> 126]}

OneCallDay(i) ==
    [dt |-> i * SecondsPerDay,
     temp |-> [day |-> 10 + i, min |-> i, max |-> 20 + i, night |-> i + 1,
               eve |-> 12 + i, morn |-> 5 + i],
     feels_like |-> [day |-> 9 + i],
     humidity |-> 50 + i,
     wind_speed |-> 3,
     weather |-> <<[main |-> "Clear", description |-> "clear sky",
                    icon |-> "01d"]>>,
     sunrise |-> i * SecondsPerDay + 6 * SecondsPerHour,
     sunset |-> i * SecondsPerDay + 18 * SecondsPerHour,
     uvi |-> i % 3]

OneCallOutcomes ==
    {Raised("WeatherAPIError"), Result([hourly |-> <<>>])}
        \cup {Result([daily |-> [i \in 1 .. n |-> OneCallDay(i)]]) :
                n \in 0 .. MaxOneCallDays}

WeeklyForecasts ==
    {Raised("WeatherAPIError"), Result(<<>>),
     Result(<<ForecastData(0, -5, 0), ForecastData(SecondsPerDay, 7, 50)>>)}
        \cup {Result(l) : l \in FullForecasts}

InitWeekly ==
    /\ ReqIdle
    /\ procs = <<>>
    /\ favFile = <<>>
    /\ histFile = <<>>
    /\ savedFile = <<>>
    /\ fileStat = [k \in Keys |-> "missing"]
    /\ clock = 0
    /\ calls = 0
    /\ steps = 0
    /\ detours = 0
    /\ \E location \in WeeklyLocations, weather \in WeatherOutcomes("Seoul", 1),
          onecall \in OneCallOutcomes, forecast \in WeeklyForecasts :
          last = [op |-> "call", location |-> location, weather |-> weather,
                  onecall |-> onecall, forecast |-> forecast]

NextWeekly ==
    /\ last.op = "call"
    /\ last' = [op |-> "get_weekly_forecast",
                location |-> last.location,
                weather |-> last.weather,
                onecall |-> last.onecall,
                forecast |-> last.forecast,
                ret |-> GetWeeklyForecast(last.location, last.weather,
                                          last.onecall, last.forecast)]
    /\ UNCHANGED <<favFile, histFile, savedFile, fileStat, clock, calls,
                   steps, detours>>
    /\ UNCHANGED <<reqVars, procs>>

SpecWeekly == InitWeekly /\ [][NextWeekly]_vars

(***************************************************************************)
(* SpecCities: get_multiple_cities_weather on every list of up to          *)
(* MaxCities locations, each fetch answered or failing.                    *)
(***************************************************************************)
MaxCities == 3

CityLists == UNION {[1 .. n -> Cities] : n \in 0 .. MaxCities}

\* The answers to the requests for the cities of a list, one for each.
ResponsesFor(cities) ==
    {r \in [DOMAIN cities ->
              UNION {WeatherOutcomes(c, n) :
                       c \in Cities, n \in 1 .. MaxCities + 1}] :
        \A i \in DOMAIN cities : r[i] \in WeatherOutcomes(cities[i], i)}

InitCities ==
    /\ ReqIdle
    /\ procs = <<>>
    /\ favFile = <<>>
    /\ histFile = <<>>
    /\ savedFile = <<>>
    /\ fileStat = [k \in Keys |-> "missing"]
    /\ clock = 0
    /\ calls = 0
    /\ steps = 0
    /\ detours = 0
    /\ \E cities \in CityLists :
          \E responses \in ResponsesFor(cities) :
             last = [op |-> "call", cities |-> cities,
                     responses |-> responses]

NextCities ==
    /\ last.op = "call"
    /\ last' = [op |-> "get_multiple_cities_weather",
                cities |-> last.cities,
                responses |-> last.responses,
                ret |-> GetMultipleCitiesWeather(last.cities, last.responses)]
    /\ UNCHANGED <<favFile, histFile, savedFile, fileStat, clock, calls,
                   steps, detours>>
    /\ UNCHANGED <<reqVars, procs>>

SpecCities == InitCities /\ [][NextCities]_vars


\* C19: get_weekly_forecast raises a client error exactly when the
\* current-weather call made for a location given by name fails, or the
\* onecall endpoint fails and the fallback forecast call fails too.
\* Otherwise it returns a WeeklyForecastData: when the onecall endpoint
\* failed, one day for each of the first UTC dates of the 5-day/3-hour
\* forecast, at most 5, with the lowest and highest temperature of the
\* entries of that date; when it answered, its first days, at most 7.
C19_WeeklyFallback ==
    (last.op = "get_weekly_forecast") =>
        LET weatherFailed == "q" \in DOMAIN last.location /\ last.weather.raised
            fellBack == ~weatherFailed /\ last.onecall.raised
            r == last.ret
        IN  /\ r.raised <=> (weatherFailed \/ (fellBack /\ last.forecast.raised))
            /\ r.raised => r.error = "WeatherAPIError"
            /\ ~r.raised => DOMAIN r.value = {"daily_forecasts"}
            /\ (fellBack /\ ~last.forecast.raised) =>
                  LET days == r.value.daily_forecasts
                      f == last.forecast.value
                      n == Cardinality(DatesOf(f))
                  IN  /\ Len(days) <= 5
                      /\ Len(days) = IF n < 5 THEN n ELSE 5
                      /\ \A k \in DOMAIN days :
                            LET date == days[k].timestamp \div SecondsPerDay
                                temps == {f[i].temperature :
                                             i \in PlacesOf(f, date)}
                            IN  /\ date \in DatesOf(f)
                                /\ \A j \in 1 .. k - 1 :
                                      days[j].timestamp < days[k].timestamp
                                /\ days[k].temp_min \in temps
                                /\ days[k].temp_max \in temps
                                /\ \A t \in temps :
                                      /\ days[k].temp_min <= t
                                      /\ t <= days[k].temp_max
            /\ (~weatherFailed /\ ~last.onecall.raised) =>
                  LET days == r.value.daily_forecasts
                      daily == IF "daily" \in DOMAIN last.onecall.value
                               THEN last.onecall.value.daily ELSE <<>>
                  IN  /\ Len(days) = IF Len(daily) < 7 THEN Len(daily) ELSE 7
                      /\ \A k \in DOMAIN days :
                            /\ days[k].timestamp = daily[k].dt
                            /\ days[k].temp_max = daily[k].temp.max

\* The onecall endpoint failed for a location given by name, and 5 days
\* came back from a forecast whose entries fall on 6 dates.
C19_Witness ==
    /\ last.op = "get_weekly_forecast"
    /\ "q" \in DOMAIN last.location
    /\ ~last.weather.raised
    /\ last.onecall.raised
    /\ ~last.forecast.raised
    /\ Cardinality(DatesOf(last.forecast.value)) = 6
    /\ ~last.ret.raised
    /\ Len(last.ret.value.daily_forecasts) = 5

\* C20: get_multiple_cities_weather raises no client error; it returns
\* the current-weather records of the locations whose fetch succeeded, one
\* for each of them and none else, in the order of the locations in the
\* input, whatever fetches failed before them.
C20_CitiesSubsequence ==
    (last.op = "get_multiple_cities_weather") =>
        LET r == last.ret
            fetched == {i \in DOMAIN last.cities : ~last.responses[i].raised}
        IN  /\ ~r.raised
            /\ Len(r.value) = Cardinality(fetched)
            /\ \E place \in [DOMAIN r.value -> fetched] :
                  /\ \A j, k \in DOMAIN r.value :
                        j < k => place[j] < place[k]
                  /\ \A k \in DOMAIN r.value :
                        /\ r.value[k].city = last.cities[place[k]]
                        /\ r.value[k] =
                              GetCurrentWeather(last.responses[place[k]]).value

\* The fetch of the second of three locations failed, and the records of
\* the first and the third came back.
C20_Witness ==
    /\ last.op = "get_multiple_cities_weather"
    /\ Len(last.cities) = 3
    /\ ~last.responses[1].raised
    /\ last.responses[2].raised
    /\ ~last.responses[3].raised
    /\ ~last.ret.raised
    /\ Len(last.ret.value) = 2
    /\ last.ret.value[2].city = last.cities[3]
    /\ last.ret.value[2].timestamp = 3


GetsBefore(i) == {j \in GetIndices : j < i}

\* C23: when the first k <= MAX_RETRIES HTTP calls of a call fail in
\* transport (timeout, connection failure or other request exception, in
\* any mix) and the next one is answered with a status below 400, the call
\* ends there, returning the body: k + 1 HTTP calls were made and the
\* sleeps were 2^0, ..., 2^(k-1) seconds, one after each failure.  When
\* all MAX_RETRIES + 1 HTTP calls fail in transport, the error raised is
\* the one of the kind of the last failure.
C23_RetryThenReturn ==
    /\ \A i \in GetIndices :
          (/\ trace[i].kind = "response"
           /\ trace[i].status < 400
           /\ \A j \in GetsBefore(i) : trace[j].kind \in TransportFailures) =>
              LET k == Cardinality(GetsBefore(i))
              IN  /\ k <= MAX_RETRIES
                  /\ pc = "done"
                  /\ result = [kind |-> "return", err |-> "none"]
                  /\ i = Len(trace)
                  /\ Cardinality(GetIndices) = k + 1
                  /\ Cardinality(SleepIndices) = k
                  /\ \A n \in 1 .. k :
                        /\ trace[2 * n - 1].ev = "get"
                        /\ trace[2 * n].ev = "sleep"
                        /\ trace[2 * n].secs = 2 ^ (n - 1)
    /\ (/\ pc = "done"
        /\ Cardinality(GetIndices) = MAX_RETRIES + 1
        /\ \A j \in GetIndices : trace[j].kind \in TransportFailures) =>
           result = [kind |-> "raise", err |-> trace[Len(trace)].kind]

\* C28: a call of _make_request of a client with a key makes at most
\* MAX_RETRIES + 1 HTTP calls and MAX_RETRIES sleeps, and when it is over
\* it has either returned the body of a response with status below 400,
\* its last HTTP call, or raised a WeatherAPIError; it has not ended
\* without a result or with another exception.
C28_ReturnsOrRaisesClientError ==
    apiKey =>
        /\ Cardinality(GetIndices) <= MAX_RETRIES + 1
        /\ Cardinality(SleepIndices) <= MAX_RETRIES
        /\ attempt <= MAX_RETRIES
        /\ (pc = "done") =>
              \/ /\ result = [kind |-> "return", err |-> "none"]
                 /\ trace # <<>>
                 /\ trace[Len(trace)].kind = "response"
                 /\ trace[Len(trace)].status < 400
              \/ /\ result.kind = "raise"
                 /\ result.err \in {"invalid_key", "not_found", "rate_limit",
                                    "api_error", "timeout", "connection",
                                    "request"}


\* get_weekly_forecast took the fallback and it gave a result.
WeeklyFellBack ==
    /\ last.op = "get_weekly_forecast"
    /\ ~("q" \in DOMAIN last.location /\ last.weather.raised)
    /\ last.onecall.raised
    /\ ~last.forecast.raised

\* The temperatures of the forecast entries of the date of a fallback day.
TempsOfDay(day) ==
    LET f == last.forecast.value
    IN  {f[i].temperature : i \in PlacesOf(f, day.timestamp \div SecondsPerDay)}

\* mean is the arithmetic mean of the temperatures of the entries of the
\* date of a fallback day.
IsMeanOfDay(mean, day) ==
    LET f == last.forecast.value
        places == PlacesOf(f, day.timestamp \div SecondsPerDay)
    IN  /\ mean.len = Cardinality(places)
        /\ mean.sum = SumAt(f, "temperature", places)

\* What the fallback days have as the claim and the code agree: min and
\* max of the date, the average as day, morning and evening temperature,
\* and zero for sunrise, sunset and UV index.
FallbackDayCommon(day) ==
    /\ TempsOfDay(day) # {}
    /\ day.temp_min \in TempsOfDay(day)
    /\ day.temp_max \in TempsOfDay(day)
    /\ \A t \in TempsOfDay(day) : day.temp_min <= t /\ t <= day.temp_max
    /\ IsMeanOfDay(day.temp_day, day)
    /\ day.temp_morn = day.temp_day
    /\ day.temp_eve = day.temp_day
    /\ day.sunrise = 0
    /\ day.sunset = 0
    /\ day.uvi = 0

\* C24 as stated: in the fallback of get_weekly_forecast every day has the
\* min and max of the summary of its date, the average of the date as
\* night, morning and evening temperature, and zero for sunrise, sunset
\* and UV index.
C24_FallbackNightIsAverage ==
    WeeklyFellBack =>
        \A k \in DOMAIN last.ret.value.daily_forecasts :
           LET day == last.ret.value.daily_forecasts[k]
           IN  /\ FallbackDayCommon(day)
               /\ day.temp_night * day.temp_day.len = day.temp_day.sum

\* C24 amended: in the fallback of get_weekly_forecast every day has the
\* min and max of the summary of its date, the average of the date as
\* morning and evening (and day) temperature, the minimum of the date as
\* night temperature, and zero for sunrise, sunset and UV index.
C24_FallbackNightIsMin ==
    WeeklyFellBack =>
        \A k \in DOMAIN last.ret.value.daily_forecasts :
           LET day == last.ret.value.daily_forecasts[k]
           IN  /\ FallbackDayCommon(day)
               /\ day.temp_night = day.temp_min

\* The fallback built a day whose lowest temperature is below its average.
C24_Witness ==
    /\ WeeklyFellBack
    /\ \E k \in DOMAIN last.ret.value.daily_forecasts :
          LET day == last.ret.value.daily_forecasts[k]
          IN  /\ day.temp_night = day.temp_min
              /\ day.temp_min * day.temp_day.len < day.temp_day.sum


(***************************************************************************)
(* get_hourly_forecast (src/api.py)                                        *)
(***************************************************************************)
\* The HourlyForecastData built from one ForecastData in the fallback.
HourlyFromForecast(forecast) ==
    [timestamp |-> forecast.timestamp,
     temperature |-> forecast.temperature,
     feels_like |-> forecast.temperature,
     weather_main |-> forecast.weather_main,
     weather_description |-> forecast.weather_description,
     weather_icon |-> forecast.weather_icon,
     humidity |-> forecast.humidity,
     wind_speed |-> forecast.wind_speed,
     precipitation |-> forecast.pop * 10]

\* hour_data[key].get('1h', 0) when key is in hour_data, else nothing added.
OneHourOf(hour_data, key) ==
    IF key \in DOMAIN hour_data
    THEN IF "1h" \in DOMAIN hour_data[key] THEN hour_data[key]["1h"] ELSE 0
    ELSE 0

\* The HourlyForecastData built from one element of 'hourly' of the
\* onecall answer.
HourlyFromOneCall(hour_data) ==
    [timestamp |-> hour_data.dt,
     temperature |-> hour_data.temp,
     feels_like |-> hour_data.feels_like,
     weather_main |-> hour_data.weather[1].main,
     weather_description |-> hour_data.weather[1].description,
     weather_icon |-> hour_data.weather[1].icon,
     humidity |-> hour_data.humidity,
     wind_speed |-> hour_data.wind_speed,
     precipitation |-> OneHourOf(hour_data, "rain")
                          + OneHourOf(hour_data, "snow")]

\* min(hours, len(basic_forecasts))
MinHours(hours, n) == IF hours < n THEN hours ELSE n

\* Mutant of HourlyFallback: the slice is not taken.
HourlyFallbackAll(forecast, hours) ==
    IF forecast.raised THEN forecast
    ELSE Result([i \in DOMAIN forecast.value |->
                   HourlyFromForecast(forecast.value[i])])

\* The except branch of get_hourly_forecast.
HourlyFallback(forecast, hours) ==
    IF forecast.raised THEN forecast
    ELSE LET first == Slice(forecast.value,
                            MinHours(hours, Len(forecast.value)))
         IN  Result([i \in DOMAIN first |-> HourlyFromForecast(first[i])])

\* get_hourly_forecast(location, units, hours); weather, onecall and
\* forecast are the answers of the weather and onecall endpoints and of
\* get_forecast.
GetHourlyForecast(location, weather, onecall, forecast, hours) ==
    IF "q" \in DOMAIN location /\ GetCurrentWeather(weather).raised
    THEN GetCurrentWeather(weather)
    ELSE IF onecall.raised THEN HourlyFallback(forecast, hours)
    ELSE LET hourly == IF "hourly" \in DOMAIN onecall.value
                       THEN onecall.value.hourly ELSE <<>>
             first == Slice(hourly, hours)
         IN  Result([i \in DOMAIN first |-> HourlyFromOneCall(first[i])])

(***************************************************************************)
(* SpecHourly: get_hourly_forecast for hours >= 0 and a location given by  *)
(* name or by coordinates, with every combination of the answers of the    *)
(* weather endpoint, the onecall endpoint (an error, no 'hourly', or 0 to  *)
(* MaxOneCallHours hours) and get_forecast.                                *)
(***************************************************************************)
MaxOneCallHours == 3

\* One element of 'hourly'; rain and snow are there for some hours only.
OneCallHour(i) ==
    LET base == [dt |-> i * SecondsPerHour,
                 temp |-> 10 + i,
                 feels_like |-> 8 + i,
                 humidity |-> 50 + i,
                 wind_speed |-> 3,
                 weather |-> <<[main |-> "Rain", description |-> "light rain",
                                icon |-> "10d"]>>]
    IN  CASE i % 3 = 1 -> base
          [] i % 3 = 2 -> [k \in DOMAIN base \cup {"rain"} |->
                             IF k = "rain" THEN [h \in {"1h"} |-> 2]
                             ELSE base[k]]
          [] OTHER -> [k \in DOMAIN base \cup {"rain", "snow"} |->
                         IF k = "rain" THEN [h \in {"3h"} |-> 5]
                         ELSE IF k = "snow" THEN [h \in {"1h"} |-> 1]
                         ELSE base[k]]

OneCallHourly ==
    {Raised("WeatherAPIError"), Result([daily |-> <<>>])}
        \cup {Result([hourly |-> [i \in 1 .. n |-> OneCallHour(i)]]) :
                n \in 0 .. MaxOneCallHours}

HourCounts == {0, 1, 2, 3, 24, 48}

InitHourly ==
    /\ ReqIdle
    /\ procs = <<>>
    /\ favFile = <<>>
    /\ histFile = <<>>
    /\ savedFile = <<>>
    /\ fileStat = [k \in Keys |-> "missing"]
    /\ clock = 0
    /\ calls = 0
    /\ steps = 0
    /\ detours = 0
    /\ \E location \in WeeklyLocations, weather \in WeatherOutcomes("Seoul", 1),
          onecall \in OneCallHourly, forecast \in WeeklyForecasts,
          hours \in HourCounts :
          last = [op |-> "call", location |-> location, weather |-> weather,
                  onecall |-> onecall, forecast |-> forecast,
                  hours |-> hours]

NextHourly ==
    /\ last.op = "call"
    /\ last' = [op |-> "get_hourly_forecast",
                location |-> last.location,
                weather |-> last.weather,
                onecall |-> last.onecall,
                forecast |-> last.forecast,
                hours |-> last.hours,
                ret |-> GetHourlyForecast(last.location, last.weather,
                                          last.onecall, last.forecast,
                                          last.hours)]
    /\ UNCHANGED <<favFile, histFile, savedFile, fileStat, clock, calls,
                   steps, detours>>
    /\ UNCHANGED <<reqVars, procs>>

SpecHourly == InitHourly /\ [][NextHourly]_vars

\* get_hourly_forecast took the fallback and it gave a result.
HourlyFellBack ==
    /\ last.op = "get_hourly_forecast"
    /\ ~("q" \in DOMAIN last.location /\ last.weather.raised)
    /\ last.onecall.raised
    /\ ~last.forecast.raised

\* C25: in the fallback of get_hourly_forecast(hours), hours >= 0, the
\* result is a list of min(hours, n) hourly records, the k-th built from the
\* k-th of the n forecast entries: same timestamp and temperature,
\* feels_like equal to the temperature, precipitation equal to ten times
\* the entry's precipitation probability in percent.  On the primary path
\* the result is a list of records of the same fields.
C25_HourlyFallback ==
    /\ HourlyFellBack =>
          LET f == last.forecast.value
              r == last.ret
          IN  /\ ~r.raised
              /\ Len(r.value) =
                    IF last.hours < Len(f) THEN last.hours ELSE Len(f)
              /\ \A k \in DOMAIN r.value :
                    /\ r.value[k].timestamp = f[k].timestamp
                    /\ r.value[k].temperature = f[k].temperature
                    /\ r.value[k].feels_like = f[k].temperature
                    /\ r.value[k].precipitation = f[k].pop * 10
                    /\ r.value[k].humidity = f[k].humidity
    /\ (last.op = "get_hourly_forecast" /\ ~last.ret.raised) =>
          \A k \in DOMAIN last.ret.value :
             DOMAIN last.ret.value[k] =
                {"timestamp", "temperature", "feels_like", "weather_main",
                 "weather_description", "weather_icon", "humidity",
                 "wind_speed", "precipitation"}

\* 24 hours were asked for and the fallback gave 24 of the 40 entries, one
\* of them with a precipitation probability above zero.
C25_Witness ==
    /\ HourlyFellBack
    /\ last.hours = 24
    /\ Len(last.forecast.value) = 40
    /\ Len(last.ret.value) = 24
    /\ \E k \in DOMAIN last.ret.value :
          /\ last.forecast.value[k].pop > 0
          /\ last.ret.value[k].precipitation = 10 * last.forecast.value[k].pop


\* How many entries of the date of summary d have icon code c.
IconCount(f, d, c) ==
    Cardinality({i \in PlacesOf(f, d.date) : f[i].weather_icon = c})

\* The place where icon code c is first met among the entries of the date.
IconFirstPlace(f, d, c) ==
    CHOOSE i \in PlacesOf(f, d.date) :
       /\ f[i].weather_icon = c
       /\ \A j \in PlacesOf(f, d.date) : f[j].weather_icon = c => i <= j

\* C26: in every summary of get_daily_forecast, weather_icon is an icon
\* code of the date's entries that no other code outnumbers, and of the
\* codes that occur as often it is the one met first; weather_description
\* is the description of the first entry of the date.
C26_IconAndDescription ==
    (last.op = "get_daily_forecast" /\ ~last.ret.raised) =>
        LET f == last.forecast.value
        IN  \A k \in DOMAIN last.ret.value :
               LET d == last.ret.value[k]
                   codes == {f[i].weather_icon : i \in PlacesOf(f, d.date)}
               IN  /\ d.weather_icon \in codes
                   /\ \A c \in codes :
                         /\ IconCount(f, d, c) <= IconCount(f, d, d.weather_icon)
                         /\ (c # d.weather_icon /\ IconCount(f, d, c)
                                = IconCount(f, d, d.weather_icon)) =>
                               IconFirstPlace(f, d, d.weather_icon)
                                  < IconFirstPlace(f, d, c)
                   /\ d.weather_description =
                         f[FirstPlace(f, d.date)].weather_description

\* Two entries of one date with two icon codes, one each: the code of the
\* first entry was chosen.
C26_Witness ==
    /\ last.op = "get_daily_forecast"
    /\ ~last.ret.raised
    /\ Len(last.forecast.value) = 2
    /\ Len(last.ret.value) = 1
    /\ last.forecast.value[1].weather_icon # last.forecast.value[2].weather_icon
    /\ last.ret.value[1].weather_icon = last.forecast.value[1].weather_icon
    /\ last.ret.value[1].weather_description
          = last.forecast.value[1].weather_description


(***************************************************************************)
(* SpecFavRead: SpecFav with is_favorite                                   *)
(***************************************************************************)
IsFavoriteStep ==
    \E query \in FavQueries :
       /\ IsFavorite(query)
       /\ UNCHANGED <<histFile, savedFile, calls, steps, detours>>
       /\ UNCHANGED <<reqVars, procs>>

NextFavRead == NextFav \/ IsFavoriteStep

SpecFavRead == InitFav /\ [][NextFavRead]_vars

\* The places of the entries of favs whose query equals query ignoring case.
Matching(favs, query) ==
    {i \in DOMAIN favs : Lower(favs[i].query) = Lower(query)}

\* is_favorite and add_favorite agree: is_favorite(q) returns True exactly
\* when an entry's query equals q ignoring case, and changes no file;
\* add_favorite(q) is rejected as a duplicate exactly then.
SameComparison ==
    /\ (last.op = "is_favorite") =>
          /\ last.ret = (Matching(last.pre, last.query) # {})
          /\ GetFavorites = last.pre
    /\ (last.op = "add_favorite") =>
          (~last.wrote /\ ~last.ret) = (Matching(last.pre, last.query) # {})

\* remove_favorite(q) with no matching entry returns False and writes
\* nothing; otherwise the list it writes is the old list without the
\* matching entries, the others kept in order.
RemoveFilters ==
    (last.op = "remove_favorite") =>
        IF Matching(last.pre, last.query) = {}
        THEN /\ ~last.ret
             /\ ~last.wrote
             /\ GetFavorites = last.pre
        ELSE /\ last.wrote
             /\ last.data = SelectSeq(last.pre,
                               LAMBDA f : Lower(f.query) # Lower(last.query))
             /\ Len(last.data)
                   = Len(last.pre) - Cardinality(Matching(last.pre, last.query))

NumProcs == 2

MaxConcCalls == 2

Procs == 1 .. NumProcs

ConcQueries == {<<"a", "b">>, <<"A", "B">>, <<"c", ",", "D">>}

\* Favorites files whose queries differ ignoring case.
DistinctFavorites ==
    LET f1 == FavoriteLocation("Home", <<"a", "b">>, 1)
        f3 == FavoriteLocation("Home", <<"c", ",", "D">>, 1)
    IN  {<<>>, <<f1>>, <<f3, f1>>}

ProcIdle ==
    [pc |-> "idle", op |-> "none", query |-> <<>>, favorites |-> <<>>,
     ret |-> FALSE]

InitConc ==
    /\ ReqIdle
    /\ favFile \in DistinctFavorites
    /\ histFile = <<>>
    /\ savedFile = <<>>
    /\ fileStat = [k \in Keys |->
                     IF k = "favorites" /\ favFile # <<>> THEN "ok"
                     ELSE "missing"]
    /\ clock = 1
    /\ calls = 0
    /\ steps = 0
    /\ detours = 0
    /\ last = [op |-> "none"]
    /\ procs = [p \in Procs |-> ProcIdle]

\* Process p calls add_favorite(name, query) or remove_favorite(query).
StartCall(p, op, query) ==
    /\ procs[p].pc = "idle"
    /\ calls < MaxConcCalls
    /\ calls' = calls + 1
    /\ procs' = [procs EXCEPT ![p] = [ProcIdle EXCEPT !.pc = "load",
                                                      !.op = op,
                                                      !.query = query]]
    /\ UNCHANGED <<favFile, fileStat, last>>

\* favorites = self.get_favorites()
LoadFavorites(p) ==
    /\ procs[p].pc = "load"
    /\ procs' = [procs EXCEPT ![p].pc = "write",
                              ![p].favorites = GetFavorites]
    /\ UNCHANGED <<favFile, fileStat, calls, last>>

\* Mutant of LoadedBy: the list is read again at the write, as under a lock
\* held for the whole call.
LoadedFresh(p) == GetFavorites

\* The list process p works on after its load.
LoadedBy(p) == procs[p].favorites

\* The end of the call of process p: the process is idle again and the
\* list it loaded is gone.
CallOver(p, ret, wrote, w) ==
    /\ procs' = [procs EXCEPT ![p].pc = "idle", ![p].favorites = <<>>,
                              ![p].ret = ret]
    /\ last' = [op |-> procs[p].op, proc |-> p, query |-> procs[p].query,
                pre |-> procs[p].favorites,
                stale |-> (procs[p].favorites # GetFavorites),
                wrote |-> wrote, w |-> w, ret |-> ret]
    /\ UNCHANGED calls

\* The rest of add_favorite after the load.
AddFavoriteWrite(p, w) ==
    LET favorites == LoadedBy(p)
        data == Append(favorites,
                       FavoriteLocation("Home", procs[p].query, clock))
    IN  /\ procs[p].pc = "write"
        /\ procs[p].op = "add_favorite"
        /\ IF HasQuery(favorites, procs[p].query)
           THEN /\ CallOver(p, FALSE, FALSE, "none")
                /\ UNCHANGED <<favFile, fileStat>>
           ELSE /\ favFile' = SavedFile(favFile, data, w)
                /\ fileStat' = [fileStat EXCEPT
                                   !["favorites"] = SavedStat(@, w)]
                /\ CallOver(p, SaveResult(w), TRUE, w)

\* The rest of remove_favorite after the load.
RemoveFavoriteWrite(p, w) ==
    LET favorites == LoadedBy(p)
        kept == WithoutQuery(favorites, procs[p].query)
    IN  /\ procs[p].pc = "write"
        /\ procs[p].op = "remove_favorite"
        /\ IF Len(kept) < Len(favorites)
           THEN /\ favFile' = SavedFile(favFile, kept, w)
                /\ fileStat' = [fileStat EXCEPT
                                   !["favorites"] = SavedStat(@, w)]
                /\ CallOver(p, SaveResult(w), TRUE, w)
           ELSE /\ CallOver(p, FALSE, FALSE, "none")
                /\ UNCHANGED <<favFile, fileStat>>

ConcUnchanged ==
    /\ UNCHANGED <<histFile, savedFile, clock, steps, detours>>
    /\ UNCHANGED reqVars

StartStep ==
    \E p \in Procs, op \in {"add_favorite", "remove_favorite"},
       query \in ConcQueries :
       StartCall(p, op, query) /\ ConcUnchanged

LoadStep == \E p \in Procs : LoadFavorites(p) /\ ConcUnchanged

AddWriteStep ==
    \E p \in Procs, w \in WriteOutcomes :
       AddFavoriteWrite(p, w) /\ ConcUnchanged

RemoveWriteStep ==
    \E p \in Procs, w \in WriteOutcomes :
       RemoveFavoriteWrite(p, w) /\ ConcUnchanged

NextConc == StartStep \/ LoadStep \/ AddWriteStep \/ RemoveWriteStep

SpecConc == InitConc /\ [][NextConc]_vars


\* Process p is back from an add_favorite call that returned True.
AddedBy(p) ==
    /\ procs[p].pc = "idle"
    /\ procs[p].op = "add_favorite"
    /\ procs[p].ret

\* C22: the write of add_favorite puts the list the process loaded, with
\* the new entry appended, in place of the whole file, whatever was written
\* since the load.  So when the call that ended last is an add_favorite
\* that returned True, the favorite of another process whose add_favorite
\* also returned True, with another query, is in the file only if it was in
\* the list loaded: an update written between the load and the write is
\* lost, and both calls returned success.
C22_LostUpdate ==
    (last.op = "add_favorite" /\ last.ret) =>
        /\ last.wrote
        /\ GetFavorites
              = Append(last.pre, FavoriteLocation("Home", last.query, clock))
        /\ \A p \in Procs \ {last.proc} :
              (/\ AddedBy(p)
               /\ Lower(procs[p].query) # Lower(last.query)
               /\ Matching(last.pre, procs[p].query) = {}) =>
                  Matching(GetFavorites, procs[p].query) = {}

\* Two processes loaded the same favorites, both wrote and both got True
\* from add_favorite, with queries that differ; the file holds the favorite
\* of the second writer and not the one of the first.
C22_Witness ==
    /\ last.op = "add_favorite"
    /\ last.ret
    /\ last.stale
    /\ Len(GetFavorites) = Len(last.pre) + 1
    /\ Matching(GetFavorites, last.query) # {}
    /\ \E p \in Procs \ {last.proc} :
          /\ AddedBy(p)
          /\ Lower(procs[p].query) # Lower(last.query)
          /\ Matching(GetFavorites, procs[p].query) = {}

\* C30: under every interleaving of the loads and writes of add_favorite
\* and remove_favorite calls of the processes, started on a favorites file
\* whose queries differ ignoring case, the file never holds two entries
\* whose queries are equal ignoring case, nor does any list a process has
\* loaded.
C30_ConcurrentUnique ==
    /\ UniqueQueries(GetFavorites)
    /\ \A p \in Procs : UniqueQueries(procs[p].favorites)
    /\ fileStat["favorites"] \in {"missing", "ok"}

\* An update was lost: remove_favorite of one process returned True, and
\* the add_favorite of another, which had loaded the file before, wrote the
\* removed favorite back.
C30_Witness ==
    /\ last.op = "add_favorite"
    /\ last.ret
    /\ last.stale
    /\ \E p \in Procs \ {last.proc} :
          /\ procs[p].pc = "idle"
          /\ procs[p].op = "remove_favorite"
          /\ procs[p].ret
          /\ Matching(GetFavorites, procs[p].query) # {}


(***************************************************************************)
(* export_data, and SpecRound: from the empty store, up to MaxRoundCalls   *)
(* calls of add_favorite, remove_favorite, add_search_history,             *)
(* clear_search_history, save_weather_record and delete_weather_record     *)
(* whose writes succeed, then export_data and import_data(export_data()),  *)
(* at most MaxDetours of them, with writes that succeed or fail.           *)
(***************************************************************************)
ExportLimit == 1000

\* asdict(x): the fields of the dataclass, one by one.
AsDict(x) == [field \in DOMAIN x |-> x[field]]

AsDicts(l) == [i \in DOMAIN l |-> AsDict(l[i])]

\* Mutant of ExportData: the saved records are left out.
ExportDataNoSaved(now) ==
    [favorites |-> JsonList(AsDicts(GetFavorites)),
     history |-> JsonList(AsDicts(GetSearchHistory(ExportLimit))),
     saved_weather |-> JsonList(<<>>),
     export_date |-> now]

\* export_data()
ExportData(now) ==
    [favorites |-> JsonList(AsDicts(GetFavorites)),
     history |-> JsonList(AsDicts(GetSearchHistory(ExportLimit))),
     saved_weather |-> JsonList(AsDicts(GetSavedWeather(ExportLimit))),
     export_date |-> now]

MaxRoundCalls == 3

RoundQueries == {<<"a", "b">>, <<"A", "B">>, <<"c", ",", "D">>}

\* A mutating call whose write succeeds.
RoundCall ==
    \/ \E query \in RoundQueries, now \in NowSet :
          /\ AddFavorite("Home", query, now, "ok")
          /\ UNCHANGED <<histFile, savedFile>>
    \/ \E query \in RoundQueries :
          /\ RemoveFavorite(query, "ok")
          /\ UNCHANGED <<histFile, savedFile>>
    \/ \E query \in RoundQueries, now \in NowSet :
          /\ AddSearchHistory(query, TRUE, now, "ok")
          /\ UNCHANGED <<favFile, savedFile>>
    \/ /\ ClearSearchHistory("ok")
       /\ UNCHANGED <<favFile, savedFile>>
    \/ \E now \in NowSet :
          /\ SaveWeatherRecord(Location, steps + 1, now, "ok")
          /\ UNCHANGED <<favFile, histFile>>
    \/ \E timestamp \in 1 .. clock :
          /\ DeleteWeatherRecord(timestamp, "ok")
          /\ UNCHANGED <<favFile, histFile>>

RoundCallStep ==
    /\ steps < MaxRoundCalls
    /\ detours = 0
    /\ RoundCall
    /\ steps' = steps + 1
    /\ UNCHANGED <<calls, detours>>
    /\ UNCHANGED <<reqVars, procs>>

\* export_data()
ExportStep ==
    /\ detours < MaxDetours
    /\ last' = [op |-> "export_data",
                pre |-> Files, preStat |-> fileStat,
                ret |-> ExportData(clock + 1)]
    /\ detours' = detours + 1
    /\ UNCHANGED <<favFile, histFile, savedFile, fileStat, clock, calls,
                   steps>>
    /\ UNCHANGED <<reqVars, procs>>

\* import_data(export_data())
RoundTripStep ==
    \E w \in [Keys -> WriteOutcomes] :
       /\ detours < MaxDetours
       /\ ImportData(ExportData(clock + 1), w)
       /\ detours' = detours + 1
       /\ UNCHANGED <<calls, steps>>
       /\ UNCHANGED <<reqVars, procs>>

NextRound == RoundCallStep \/ ExportStep \/ RoundTripStep

SpecRound == InitFav /\ [][NextRound]_vars

\* What the three retrieval functions return for given files.
ResultsOf(files, stats) ==
    [favorites |-> LoadJson(files.favorites, stats.favorites),
     history |-> Slice(SortedByTimestampDesc(
                          LoadJson(files.history, stats.history)),
                       HistoryGetDefault),
     saved_weather |-> Slice(SortedByTimestampDesc(
                                LoadJson(files.saved_weather,
                                         stats.saved_weather)),
                             SavedGetDefault)]

====
